---- MODULE Spec2Model ----
(***************************************************************************)
(* Oblivious Transfer Message Protocol (OTMP): the OT crypto engine, the   *)
(* wire codec, the network task and the host facade of                     *)
(* SamPanDonte/oblivious_transfer, as state machines.                      *)
(*                                                                         *)
(* Specifications of this module                                           *)
(*   SpecOT    one complete exchange between two tasks, run in lockstep    *)
(*             for the responder bit c, for the flipped bit, and for a     *)
(*             changed non-chosen message (crypto.rs + task.rs handlers)   *)
(*   SpecTask  the network task alone: every datagram / action handler,    *)
(*             with the input and the output of the last handler recorded  *)
(*   Spec      host facade + task thread + the two bounded channels        *)
(*   SpecCodec the decoder applied to byte slices                          *)
(* Every specification pins the variables of the others to constants.      *)
(***************************************************************************)
EXTENDS Integers, Sequences, FiniteSets, Bags, TLC

(***************************************************************************)
(* Group arithmetic.  p256::ProjectivePoint is a cyclic group of prime     *)
(* order generated by GENERATOR; a point is modelled by its discrete log   *)
(* (point k stands for G*k), a Scalar by a residue modulo the group order. *)
(* Order stands for the (prime) order of P-256, scaled down; it is odd, so  *)
(* that no point is its own inverse, as in P-256.                          *)
(***************************************************************************)
HalfOrder == 3
Order == 2 * HalfOrder + 1
Scalars == 0 .. (Order - 1)
Points == 0 .. (Order - 1)
GENERATOR == 1
IDENTITY == 0

PointAdd(p, q) == (p + q) % Order
PointSub(p, q) == (p + Order - q) % Order
PointMul(p, s) == (p * s) % Order

\* Sha256::digest over the uncompressed SEC1 encoding: collision free, one way.
into_key(point) == [sha256 |-> point]

(***************************************************************************)
(* libaes AES-256-CBC with IV = key, symbolic: a ciphertext names the key  *)
(* and the plaintext it was made from; decrypting under another key gives  *)
(* bytes the caller cannot predict (junk), which may or may not be UTF-8.  *)
(***************************************************************************)
InvalidUtf8Bytes == "<bytes that are not UTF-8>"
GarbageText == "<garbage that happens to be UTF-8>"
Junk == {InvalidUtf8Bytes, GarbageText}

cbc_encrypt(key, plaintext) == [k |-> key, pt |-> plaintext]
cbc_decrypt(key, ciphertext, junk) ==
    IF ciphertext.k = key THEN ciphertext.pt ELSE junk
from_utf8_ok(bytes) == bytes # InvalidUtf8Bytes

(***************************************************************************)
(* MessageState (crypto.rs)                                                *)
(***************************************************************************)
GreetSent(a, point, m0, m1) ==
    [tag |-> "GreetSent", a |-> a, point |-> point, m0 |-> m0, m1 |-> m1]
GreetReceived(key, c) == [tag |-> "GreetReceived", key |-> key, c |-> c]

OkVal(v) == [ok |-> TRUE, val |-> v]
ErrVal(e) == [ok |-> FALSE, err |-> e]

\* a: the scalar in use: the caller's Some(a), or the one Scalar::random drew.
send_message(m0, m1, a) ==
    LET point == PointMul(GENERATOR, a)
    IN  [point |-> point, state |-> GreetSent(a, point, m0, m1)]

\* b and c are the values drawn by Scalar::random and random().
on_greeting_flipped(point, b, c) ==
    LET response == IF ~c THEN PointAdd(point, PointMul(GENERATOR, b))
                          ELSE PointMul(GENERATOR, b)
    IN  [point |-> response,
         state |-> GreetReceived(into_key(PointMul(point, b)), c)]

on_greeting(point, b, c) ==
    LET response == IF c THEN PointAdd(point, PointMul(GENERATOR, b))
                         ELSE PointMul(GENERATOR, b)
    IN  [point |-> response,
         state |-> GreetReceived(into_key(PointMul(point, b)), c)]

\* A variant that refuses an identity response point.
on_response_checked(state, other) ==
    IF state.tag = "GreetSent" /\ other # IDENTITY
    THEN LET key0 == into_key(PointMul(other, state.a))
             key1 == into_key(PointMul(PointSub(other, state.point), state.a))
         IN  OkVal(<<cbc_encrypt(key0, state.m0), cbc_encrypt(key1, state.m1)>>)
    ELSE ErrVal("InvalidMessage")

on_response(state, other) ==
    IF state.tag = "GreetSent"
    THEN LET key0 == into_key(PointMul(other, state.a))
             key1 == into_key(PointMul(PointSub(other, state.point), state.a))
         IN  OkVal(<<cbc_encrypt(key0, state.m0), cbc_encrypt(key1, state.m1)>>)
    ELSE ErrVal("InvalidMessage")

on_messages(state, m0, m1, junk) ==
    IF state.tag = "GreetSent"
    THEN ErrVal("InvalidMessage")
    ELSE LET ciphertext == IF state.c THEN m1 ELSE m0
             decoded == cbc_decrypt(state.key, ciphertext, junk)
         IN  IF from_utf8_ok(decoded) THEN OkVal(decoded)
                                      ELSE ErrVal("InvalidMessage")

(***************************************************************************)
(* Addresses, wire messages, errors, events, actions (message.rs, mod.rs)  *)
(***************************************************************************)
PORT == 12345
LOCAL_IP == "10.0.0.1"
PEER_IP == "10.0.0.2"
SockAddr(ip) == [ip |-> ip, port |-> PORT]
LocalAddr == SockAddr(LOCAL_IP)
PeerAddr == SockAddr(PEER_IP)
BroadcastAddr == SockAddr("10.0.0.255")

BroadcastGreet(name) == [type |-> "BroadcastGreet", name |-> name]
BroadcastResponse(name) == [type |-> "BroadcastResponse", name |-> name]
BroadcastBye == [type |-> "BroadcastBye"]
Greet(point) == [type |-> "Greet", point |-> point]
Response(point) == [type |-> "Response", point |-> point]
Data(m0, m1) == [type |-> "Data", m0 |-> m0, m1 |-> m1]

SocketBindError == [kind |-> "SocketBindError"]
SocketError == [kind |-> "SocketError"]
MessageError(cause) == [kind |-> "MessageError", cause |-> cause]
LocalIpNotFound == [kind |-> "LocalIpNotFound"]
InternetInterfaceError == [kind |-> "InternetInterfaceError"]
BroadcastAddressNotFound == [kind |-> "BroadcastAddressNotFound"]
IncorrectMessage(addr) == [kind |-> "IncorrectMessage", addr |-> addr]

EventError(error) == [event |-> "Error", error |-> error]
EventConnected(addr, name) == [event |-> "Connected", addr |-> addr, name |-> name]
EventDisconnected(addr) == [event |-> "Disconnected", addr |-> addr]
EventMessage(addr, text) == [event |-> "Message", addr |-> addr, text |-> text]

None == [some |-> FALSE]
Some(v) == [some |-> TRUE, v |-> v]
ActionBroadcast == [type |-> "Broadcast"]
ActionDisconnect == [type |-> "Disconnect"]
ActionSend(addr, m0, m1, a) ==
    [type |-> "Send", addr |-> addr, m0 |-> m0, m1 |-> m1, a |-> a]

(***************************************************************************)
(* What a handler does besides changing the state map: the frames it hands *)
(* to the socket and the events it sends to the UI, in program order.      *)
(***************************************************************************)
SendOp(message, address) == [op |-> "send_to", msg |-> message, to |-> address]
\* NetworkTask::send_event: channel send, then context.request_repaint().
EmitOp(event) == [op |-> "send_event", ev |-> event, repaint |-> TRUE]
\* The free function send_event: channel send only.
EmitNoRepaintOp(event) == [op |-> "send_event", ev |-> event, repaint |-> FALSE]

Ok == [ok |-> TRUE]
Handled(states, ops, result) == [states |-> states, ops |-> ops, result |-> result]

StatesRemove(states, addr) == [x \in (DOMAIN states) \ {addr} |-> states[x]]
StatesInsert(states, addr, state) ==
    [x \in (DOMAIN states) \cup {addr} |-> IF x = addr THEN state ELSE states[x]]

\* OTMPSocket::send_to: send_ok is whether the OS took the whole datagram.
send_to(message, address, send_ok) ==
    IF send_ok THEN [ops |-> <<SendOp(message, address)>>, result |-> Ok]
               ELSE [ops |-> <<>>, result |-> ErrVal(SocketError)]

\* OTMPSocket::broadcast: bcast is the outcome of get_broadcast.
broadcast(message, bcast, send_ok) ==
    IF bcast # "Ok"
    THEN [ops |-> <<>>, result |-> ErrVal([kind |-> bcast])]
    ELSE send_to(message, BroadcastAddr, send_ok)

(***************************************************************************)
(* NetworkTask::on_packet, one operator per match arm.  env holds what the *)
(* handler reads from outside: ip_ok and local_ip (the outcome of          *)
(* local_ip()), send_ok, b and c (the responder's random draws), junk      *)
(* (see cbc_decrypt).                                                      *)
(***************************************************************************)
\* A variant that also answers the host's own broadcast.
on_packet_BroadcastGreet_echo(states, name, message, addr, env) ==
    IF ~env.ip_ok THEN Handled(states, <<>>, ErrVal(LocalIpNotFound))
    ELSE LET sent == send_to(BroadcastResponse(name), addr, env.send_ok)
         IN  Handled(states,
                     <<EmitOp(EventConnected(addr, message.name))>> \o sent.ops,
                     sent.result)

on_packet_BroadcastGreet(states, name, message, addr, env) ==
    IF ~env.ip_ok THEN Handled(states, <<>>, ErrVal(LocalIpNotFound))
    ELSE IF env.local_ip # addr.ip
    THEN LET sent == send_to(BroadcastResponse(name), addr, env.send_ok)
         IN  Handled(states,
                     <<EmitOp(EventConnected(addr, message.name))>> \o sent.ops,
                     sent.result)
    ELSE Handled(states, <<>>, Ok)

\* A variant that answers a BroadcastResponse with one of its own.
on_packet_BroadcastResponse_reply(states, name, message, addr, env) ==
    LET sent == send_to(BroadcastResponse(name), addr, env.send_ok)
    IN  Handled(states,
                <<EmitOp(EventConnected(addr, message.name))>> \o sent.ops,
                sent.result)

on_packet_BroadcastResponse(states, name, message, addr, env) ==
    Handled(states, <<EmitOp(EventConnected(addr, message.name))>>, Ok)

\* A variant that also forgets the exchange in progress with the peer.
on_packet_BroadcastBye_forget(states, name, message, addr, env) ==
    IF ~env.ip_ok THEN Handled(states, <<>>, ErrVal(LocalIpNotFound))
    ELSE IF env.local_ip # addr.ip
    THEN Handled(StatesRemove(states, addr), <<EmitOp(EventDisconnected(addr))>>, Ok)
    ELSE Handled(states, <<>>, Ok)

on_packet_BroadcastBye(states, name, message, addr, env) ==
    IF ~env.ip_ok THEN Handled(states, <<>>, ErrVal(LocalIpNotFound))
    ELSE IF env.local_ip # addr.ip
    THEN Handled(states, <<EmitOp(EventDisconnected(addr))>>, Ok)
    ELSE Handled(states, <<>>, Ok)

on_packet_Greet(states, name, message, addr, env) ==
    LET g == on_greeting(message.point, env.b, env.c)
        sent == send_to(Response(g.point), addr, env.send_ok)
    IN  Handled(StatesInsert(states, addr, g.state), sent.ops, sent.result)

\* A variant that answers an unexpected Response silently.
on_packet_Response_silent(states, name, message, addr, env) ==
    IF addr \in DOMAIN states
    THEN LET r == on_response(states[addr], message.point)
             removed == StatesRemove(states, addr)
         IN  IF r.ok
             THEN LET sent == send_to(Data(r.val[1], r.val[2]), addr, env.send_ok)
                  IN  Handled(removed, sent.ops, sent.result)
             ELSE Handled(removed, <<>>, ErrVal(IncorrectMessage(addr)))
    ELSE Handled(states, <<>>, Ok)

\* A variant that reads the state without removing it.
on_packet_Response_keeps(states, name, message, addr, env) ==
    IF addr \in DOMAIN states
    THEN LET r == on_response(states[addr], message.point)
         IN  IF r.ok
             THEN LET sent == send_to(Data(r.val[1], r.val[2]), addr, env.send_ok)
                  IN  Handled(states, sent.ops, sent.result)
             ELSE Handled(states, <<>>, ErrVal(IncorrectMessage(addr)))
    ELSE Handled(states, <<>>, ErrVal(IncorrectMessage(addr)))

on_packet_Response(states, name, message, addr, env) ==
    IF addr \in DOMAIN states
    THEN LET r == on_response(states[addr], message.point)
             removed == StatesRemove(states, addr)
         IN  IF r.ok
             THEN LET sent == send_to(Data(r.val[1], r.val[2]), addr, env.send_ok)
                  IN  Handled(removed, sent.ops, sent.result)
             ELSE Handled(removed, <<>>, ErrVal(IncorrectMessage(addr)))
    ELSE Handled(states, <<>>, ErrVal(IncorrectMessage(addr)))

\* A variant that puts the state back when on_messages fails.
on_packet_Data_retains(states, name, message, addr, env) ==
    IF addr \in DOMAIN states
    THEN LET r == on_messages(states[addr], message.m0, message.m1, env.junk)
             removed == StatesRemove(states, addr)
         IN  IF r.ok
             THEN Handled(removed, <<EmitOp(EventMessage(addr, r.val))>>, Ok)
             ELSE Handled(states, <<>>, ErrVal(IncorrectMessage(addr)))
    ELSE Handled(states, <<>>, ErrVal(IncorrectMessage(addr)))

on_packet_Data(states, name, message, addr, env) ==
    IF addr \in DOMAIN states
    THEN LET r == on_messages(states[addr], message.m0, message.m1, env.junk)
             removed == StatesRemove(states, addr)
         IN  IF r.ok
             THEN Handled(removed, <<EmitOp(EventMessage(addr, r.val))>>, Ok)
             ELSE Handled(removed, <<>>, ErrVal(IncorrectMessage(addr)))
    ELSE Handled(states, <<>>, ErrVal(IncorrectMessage(addr)))

on_packet(states, name, message, addr, env) ==
    CASE message.type = "BroadcastGreet" ->
             on_packet_BroadcastGreet(states, name, message, addr, env)
      [] message.type = "BroadcastResponse" ->
             on_packet_BroadcastResponse(states, name, message, addr, env)
      [] message.type = "BroadcastBye" ->
             on_packet_BroadcastBye(states, name, message, addr, env)
      [] message.type = "Greet" ->
             on_packet_Greet(states, name, message, addr, env)
      [] message.type = "Response" ->
             on_packet_Response(states, name, message, addr, env)
      [] message.type = "Data" ->
             on_packet_Data(states, name, message, addr, env)

(***************************************************************************)
(* NetworkTask::on_action.  env: bcast (outcome of get_broadcast),         *)
(* send_ok, a (the scalar Scalar::random draws when the action has none).  *)
(***************************************************************************)
on_action(states, name, action, env) ==
    CASE action.type = "Broadcast" ->
             LET sent == broadcast(BroadcastGreet(name), env.bcast, env.send_ok)
             IN  Handled(states, sent.ops, sent.result)
      [] action.type = "Disconnect" ->
             LET sent == broadcast(BroadcastBye, env.bcast, env.send_ok)
             IN  Handled(states, sent.ops, sent.result)
      [] action.type = "Send" ->
             LET a == IF action.a.some THEN action.a.v ELSE env.a
                 s == send_message(action.m0, action.m1, a)
                 sent == send_to(Greet(s.point), action.addr, env.send_ok)
             IN  Handled(StatesInsert(states, action.addr, s.state),
                         sent.ops, sent.result)

\* main_loop, after the select: an Err result is reported by send_error.
after_handler(h) ==
    IF h.result.ok THEN h.ops
    ELSE Append(h.ops, EmitOp(EventError(h.result.err)))

(***************************************************************************)
(* Wire codec (message.rs).  A byte slice is a sequence of 0..255; At and  *)
(* Slice keep the source's zero-based indexes.  An index or a range        *)
(* outside the slice is a panic.                                           *)
(***************************************************************************)
MAGIC_NUMBER == <<79, 84, 77, 80>>      \* b"OTMP"
HEADER_SIZE == 7
FIELD_SIZE == 32                        \* bytes of a P-256 coordinate

At(value, i) == value[i + 1]
InBounds(value, i) == i < Len(value)
Slice(value, from, to) == SubSeq(value, from + 1, to)
SliceFrom(value, from) == SubSeq(value, from + 1, Len(value))
BeU16(hi, lo) == hi * 256 + lo

DecodeOk(message) == [tag |-> "Ok", msg |-> message]
DecodeErr(error) == [tag |-> "Err", err |-> error]
Panicked == [tag |-> "Panic"]

MissingHeaderBytes == [cause |-> "MissingHeaderBytes"]
InvalidMagicNumber == [cause |-> "InvalidMagicNumber"]
InvalidMessageType == [cause |-> "InvalidMessageType"]
InvalidMessageLength == [cause |-> "InvalidMessageLength"]
InvalidUtf8 == [cause |-> "InvalidUtf8"]
InvalidUsername(why) == [cause |-> "InvalidUsername", why |-> why]
InvalidCrypto(why) == [cause |-> "InvalidCrypto", why |-> why]

IsCont(b) == b >= 128 /\ b <= 191
\* The length of the UTF-8 sequence a lead byte announces (0: no lead byte).
Utf8Len(b) ==
    IF b < 128 THEN 1
    ELSE IF b >= 194 /\ b <= 223 THEN 2
    ELSE IF b >= 224 /\ b <= 239 THEN 3
    ELSE IF b >= 240 /\ b <= 244 THEN 4
    ELSE 0
\* Whether a well-formed UTF-8 sequence starts at bytes[i] (i is one-based)
\* and is followed by the end of the input or by the start of another one.
Utf8From(bytes, i) ==
    LET b == bytes[i]
        n == Utf8Len(b)
    IN  /\ n > 0
        /\ i + n - 1 <= Len(bytes)
        /\ \A j \in i + 1 .. i + n - 1 : IsCont(bytes[j])
        /\ (b = 224 => bytes[i + 1] >= 160)
        /\ (b = 237 => bytes[i + 1] <= 159)
        /\ (b = 240 => bytes[i + 1] >= 144)
        /\ (b = 244 => bytes[i + 1] <= 143)
        /\ (i + n <= Len(bytes) => ~IsCont(bytes[i + n]))
\* String::from_utf8: the bytes are a concatenation of well-formed sequences;
\* every byte that is no continuation byte starts one.
from_utf8(bytes) ==
    /\ Len(bytes) > 0 => ~IsCont(bytes[1])
    /\ \A i \in 1 .. Len(bytes) : ~IsCont(bytes[i]) => Utf8From(bytes, i)

\* impl TryFrom<String> for Username (connection.rs)
USERNAME_MAX == 100
\* A variant whose upper bound is exclusive.
Username_try_from_exclusive(value) ==
    IF Len(value) = 0 THEN ErrVal("Empty")
    ELSE IF Len(value) < USERNAME_MAX THEN OkVal(value)
    ELSE ErrVal("TooLong")

Username_try_from(value) ==
    IF Len(value) = 0 THEN ErrVal("Empty")
    ELSE IF Len(value) <= USERNAME_MAX THEN OkVal(value)
    ELSE ErrVal("TooLong")

(***************************************************************************)
(* SEC1 on the model group: the point G*k (k # 0) has the affine           *)
(* coordinates x = min(k, Order - k), y = k, so that a point and its       *)
(* negative share x and differ in the parity tag, as on the curve.         *)
(***************************************************************************)
XCoord(k) == IF 2 * k < Order THEN k ELSE Order - k
YTag(k) == IF 2 * k < Order THEN 2 ELSE 3
BeField(n) == [i \in 1 .. FIELD_SIZE |-> IF i = FIELD_SIZE THEN n ELSE 0]
FieldValue(bytes) ==
    IF \A i \in 1 .. (FIELD_SIZE - 1) : bytes[i] = 0 THEN OkVal(bytes[FIELD_SIZE])
    ELSE ErrVal("out of range")

point_to_bytes(point) ==
    IF point = IDENTITY THEN <<0>>
    ELSE <<YTag(point)>> \o BeField(XCoord(point))

bytes_to_point(bytes) ==
    IF Len(bytes) = 0 THEN ErrVal("InvalidPoint")
    ELSE IF bytes[1] = 0
    THEN IF Len(bytes) = 1 THEN OkVal(IDENTITY) ELSE ErrVal("InvalidPoint")
    ELSE IF bytes[1] \in {2, 3}
    THEN IF Len(bytes) # 1 + FIELD_SIZE THEN ErrVal("InvalidPoint")
         ELSE LET x == FieldValue(SubSeq(bytes, 2, 1 + FIELD_SIZE))
              IN  IF x.ok /\ x.val >= 1 /\ 2 * x.val < Order
                  THEN OkVal(IF bytes[1] = 2 THEN x.val ELSE Order - x.val)
                  ELSE ErrVal("InvalidPoint")
    ELSE IF bytes[1] = 4
    THEN IF Len(bytes) # 1 + 2 * FIELD_SIZE THEN ErrVal("InvalidPoint")
         ELSE LET x == FieldValue(SubSeq(bytes, 2, 1 + FIELD_SIZE))
                  y == FieldValue(SubSeq(bytes, 2 + FIELD_SIZE, 1 + 2 * FIELD_SIZE))
              IN  IF /\ x.ok /\ y.ok /\ y.val >= 1 /\ y.val < Order
                     /\ x.val = XCoord(y.val)
                  THEN OkVal(y.val)
                  ELSE ErrVal("InvalidPoint")
    ELSE ErrVal("InvalidPoint")

\* The Data arm of try_from.
try_from_Data(value, size) ==
    IF ~InBounds(value, HEADER_SIZE) \/ ~InBounds(value, HEADER_SIZE + 1)
    THEN Panicked
    ELSE LET len == BeU16(At(value, HEADER_SIZE), At(value, HEADER_SIZE + 1))
         IN  IF len > size - 2 THEN DecodeErr(InvalidMessageLength)
             ELSE DecodeOk(Data(Slice(value, HEADER_SIZE + 2, HEADER_SIZE + 2 + len),
                                SliceFrom(value, HEADER_SIZE + 2 + len)))

\* The BroadcastGreet (0) and BroadcastResponse (1) arms of try_from.
try_from_name(value, type_byte) ==
    IF ~from_utf8(SliceFrom(value, HEADER_SIZE)) THEN DecodeErr(InvalidUtf8)
    ELSE LET name == Username_try_from(SliceFrom(value, HEADER_SIZE))
         IN  IF ~name.ok THEN DecodeErr(InvalidUsername(name.err))
             ELSE IF type_byte = 0 THEN DecodeOk(BroadcastGreet(name.val))
                                   ELSE DecodeOk(BroadcastResponse(name.val))

\* The Greet (3) and Response (4) arms of try_from.
try_from_point(value, type_byte) ==
    LET point == bytes_to_point(SliceFrom(value, HEADER_SIZE))
    IN  IF ~point.ok THEN DecodeErr(InvalidCrypto(point.err))
        ELSE IF type_byte = 3 THEN DecodeOk(Greet(point.val))
                              ELSE DecodeOk(Response(point.val))

\* A variant that compares the length field before the magic number.
try_from_length_first(value) ==
    IF Len(value) < HEADER_SIZE THEN DecodeErr(MissingHeaderBytes)
    ELSE IF Len(value) # HEADER_SIZE + BeU16(At(value, 5), At(value, 6))
    THEN DecodeErr(InvalidMessageLength)
    ELSE IF Slice(value, 0, Len(MAGIC_NUMBER)) # MAGIC_NUMBER
    THEN DecodeErr(InvalidMagicNumber)
    ELSE LET size == BeU16(At(value, 5), At(value, 6))
         IN  CASE At(value, 4) \in {0, 1} -> try_from_name(value, At(value, 4))
               [] At(value, 4) = 2 ->
                    IF size = 0 THEN DecodeOk(BroadcastBye)
                                ELSE DecodeErr(InvalidMessageLength)
               [] At(value, 4) \in {3, 4} -> try_from_point(value, At(value, 4))
               [] At(value, 4) = 5 -> try_from_Data(value, size)
               [] OTHER -> DecodeErr(InvalidMessageType)

\* impl TryFrom<&[u8]> for Message
try_from(value) ==
    IF Len(value) < HEADER_SIZE THEN DecodeErr(MissingHeaderBytes)
    ELSE IF Slice(value, 0, Len(MAGIC_NUMBER)) # MAGIC_NUMBER
    THEN DecodeErr(InvalidMagicNumber)
    ELSE LET size == BeU16(At(value, 5), At(value, 6))
         IN  IF Len(value) # HEADER_SIZE + size THEN DecodeErr(InvalidMessageLength)
             ELSE CASE At(value, 4) = 0 -> try_from_name(value, 0)
                    [] At(value, 4) = 1 -> try_from_name(value, 1)
                    [] At(value, 4) = 2 ->
                         IF size = 0 THEN DecodeOk(BroadcastBye)
                                     ELSE DecodeErr(InvalidMessageLength)
                    [] At(value, 4) = 3 -> try_from_point(value, 3)
                    [] At(value, 4) = 4 -> try_from_point(value, 4)
                    [] At(value, 4) = 5 -> try_from_Data(value, size)
                    [] OTHER -> DecodeErr(InvalidMessageType)

\* A variant that writes the length field low byte first.
buffer_le(type_byte, data) ==
    MAGIC_NUMBER \o <<type_byte, Len(data) % 256, (Len(data) \div 256) % 256>> \o data

\* buffer(type_byte, data): the frame the encoder builds around a payload.
buffer(type_byte, data) ==
    MAGIC_NUMBER \o <<type_byte, (Len(data) \div 256) % 256, Len(data) % 256>> \o data

\* impl From<Message> for Vec<u8> (Message::into_bytes)
into_bytes(value) ==
    CASE value.type = "BroadcastGreet" -> buffer(0, value.name)
      [] value.type = "BroadcastResponse" -> buffer(1, value.name)
      [] value.type = "BroadcastBye" -> buffer(2, <<>>)
      [] value.type = "Greet" -> buffer(3, point_to_bytes(value.point))
      [] value.type = "Response" -> buffer(4, point_to_bytes(value.point))
      [] value.type = "Data" ->
           buffer(5, <<(Len(value.m0) \div 256) % 256, Len(value.m0) % 256>>
                         \o value.m0 \o value.m1)

VARIABLES
    \* SpecOT
    ot_pc,      \* the next step of the exchange
    ot_in,      \* the inputs of the base run
    ot,         \* per run: both state maps, the frame in flight, what each side saw
    \* the network task (SpecTask, Spec)
    task_pc,    \* "bind", "select", "send_event" (awaiting room), "done", "panicked"
    running,    \* main_loop's flag
    states,     \* NetworkTask.states
    pending,    \* the rest of the current handler while it awaits the event channel
    round,      \* SpecTask: input, state map before and output of the last handler
    \* the host facade and the channels (Spec)
    actions,    \* the action channel, UI -> task
    events,     \* the event channel, task -> UI
    ui_pc,      \* where the UI thread is inside NetworkHost
    ui_call,    \* the action a blocked blocking_send is holding
    ui_ret,     \* what the last NetworkHost call returned
    joined,     \* join_handle.join() has returned
    \* SpecCodec
    codec_pc,   \* "encode" before the encoder has run, "recv" before the
                \* decoder has run, "done" after
    message,    \* the Message the encoder is given (NoMessage: bytes off the wire)
    datagram,   \* the bytes the socket received
    decoded,    \* the outcome of Message::try_from on them
    \* SpecNet
    net,        \* the bag of datagrams in flight on the LAN
    net_sent,   \* the bag of all datagrams the hosts handed to their sockets
    hosts,      \* per host: the task's state map and the events it emitted
    net_todo,   \* how many Broadcast actions the UIs may still submit
    \* The UI's values (SpecPeers, SpecEdit, SpecName)
    peers,      \* PeerPanel.0, the BTreeMap<SocketAddr, Peer>, as its entries
                \* in key order
    user_message, \* the outcome of the edits of a UserMessage: its bytes, or a panic
    username,   \* the Usernames held and what the last operation returned
    \* History of Spec
    first_action, \* the type of the first action the task handled, Idle if none
    first_frame   \* the first frame the task handed to the socket, NoMessage if none

otVars == <<ot_pc, ot_in, ot>>
taskVars == <<task_pc, running, states, pending, round>>
hostVars == <<actions, events, ui_pc, ui_call, ui_ret, joined>>
codecVars == <<codec_pc, message, datagram, decoded>>
netVars == <<net, net_sent, hosts, net_todo>>
uiVars == <<peers, user_message, username>>
logVars == <<first_action, first_frame>>
vars == <<otVars, taskVars, hostVars, codecVars, netVars, uiVars, logVars>>

Idle == "-"
NoRound == [kind |-> "none", ops |-> <<>>, failed |-> FALSE]
EmptyStates == [x \in {} |-> Idle]
OtIdle == ot_pc = Idle /\ ot_in = Idle /\ ot = Idle
TaskIdle ==
    /\ task_pc = Idle /\ running = FALSE /\ states = EmptyStates
    /\ pending = <<>> /\ round = NoRound
HostIdle ==
    /\ actions = <<>> /\ events = <<>> /\ ui_pc = Idle /\ ui_call = Idle
    /\ ui_ret = Idle /\ joined = FALSE
NoMessage == [type |-> "none"]
CodecIdle == codec_pc = Idle /\ message = NoMessage /\ datagram = <<>> /\ decoded = Idle
NetIdle == net = EmptyBag /\ net_sent = EmptyBag /\ hosts = <<>> /\ net_todo = 0
NoName == [tag |-> "none"]
UiIdle == peers = <<>> /\ user_message = Idle /\ username = NoName
LogIdle == first_action = Idle /\ first_frame = NoMessage

(***************************************************************************)
(* SpecOT: Send at alice (LOCAL_IP), then Greet, Response, Data delivered  *)
(* in order between alice and bob (PEER_IP), every send succeeding.  The   *)
(* three runs take the same steps on inputs that differ in one place:      *)
(* "flip" has the other choice bit, "alt" another non-chosen message.      *)
(***************************************************************************)
UserMsgs == {"", "hello67890123456hello", "world67890123456world"}
Runs == {"base", "flip", "alt"}
AliceName == "alice"
BobName == "bob"
AliceAddr == LocalAddr
BobAddr == PeerAddr

OtInput(r) ==
    CASE r = "base" -> ot_in
      [] r = "flip" -> [ot_in EXCEPT !.c = ~ot_in.c]
      [] r = "alt" -> IF ot_in.c THEN [ot_in EXCEPT !.m0 = ot_in.other]
                                 ELSE [ot_in EXCEPT !.m1 = ot_in.other]
Chosen(in) == IF in.c THEN in.m1 ELSE in.m0
NotChosen(in) == IF in.c THEN in.m0 ELSE in.m1

OtEnv(r, local) ==
    [ip_ok |-> TRUE, local_ip |-> local, send_ok |-> TRUE, bcast |-> "Ok",
     a |-> ot_in.ra, b |-> ot_in.b, c |-> OtInput(r).c, junk |-> ot_in.junk]

Frames(ops) == SelectSeq(ops, LAMBDA o : o.op = "send_to")
Emitted(ops) == SelectSeq(ops, LAMBDA o : o.op = "send_event")
FrameTypes(ops) == [i \in DOMAIN Frames(ops) |-> Frames(ops)[i].msg.type]
EventsOf(ops) == [i \in DOMAIN Emitted(ops) |-> Emitted(ops)[i].ev]
\* What the initiator can observe of one of its handlers.
View(step, h) ==
    [step |-> step, states |-> h.states,
     frames |-> FrameTypes(after_handler(h)), events |-> EventsOf(after_handler(h))]

OtInit ==
    /\ ot_pc = "send"
    /\ ot_in \in [m0 : UserMsgs, m1 : UserMsgs, other : UserMsgs,
                  a : {None} \cup {Some(v) : v \in Scalars}, ra : Scalars,
                  b : Scalars, c : BOOLEAN, junk : Junk]
    /\ (ot_in.a.some => ot_in.ra = 0)
    /\ ot = [r \in Runs |-> [x |-> EmptyStates, y |-> EmptyStates, wire |-> <<>>,
                             xlog |-> <<>>, yevents |-> <<>>]]
    /\ TaskIdle /\ HostIdle /\ CodecIdle /\ NetIdle /\ UiIdle /\ LogIdle

\* alice's task handles Action::Send(bob, m0, m1, a).
OtAliceSend(r) ==
    LET in == OtInput(r)
        h == on_action(ot[r].x, AliceName, ActionSend(BobAddr, in.m0, in.m1, in.a),
                       OtEnv(r, LOCAL_IP))
    IN  [ot[r] EXCEPT !.x = h.states, !.wire = Frames(after_handler(h)),
                      !.xlog = Append(@, View("Send", h))]

\* bob's task handles the frame in flight, which came from alice.
OtBobPacket(r) ==
    IF ot[r].wire = <<>> THEN ot[r]
    ELSE LET h == on_packet(ot[r].y, BobName, ot[r].wire[1].msg, AliceAddr,
                            OtEnv(r, PEER_IP))
         IN  [ot[r] EXCEPT !.y = h.states, !.wire = Frames(after_handler(h)),
                           !.yevents = @ \o EventsOf(after_handler(h))]

\* alice's task handles the frame in flight, which came from bob.
OtAlicePacket(r) ==
    IF ot[r].wire = <<>> THEN ot[r]
    ELSE LET h == on_packet(ot[r].x, AliceName, ot[r].wire[1].msg, BobAddr,
                            OtEnv(r, LOCAL_IP))
         IN  [ot[r] EXCEPT !.x = h.states, !.wire = Frames(after_handler(h)),
                           !.xlog = Append(@, View(ot[r].wire[1].msg.type, h))]

OtSend ==
    /\ ot_pc = "send"
    /\ ot' = [r \in Runs |-> OtAliceSend(r)]
    /\ ot_pc' = "greet"
    /\ UNCHANGED <<ot_in, taskVars, hostVars, codecVars, netVars, uiVars, logVars>>

OtGreet ==
    /\ ot_pc = "greet"
    /\ ot' = [r \in Runs |-> OtBobPacket(r)]
    /\ ot_pc' = "response"
    /\ UNCHANGED <<ot_in, taskVars, hostVars, codecVars, netVars, uiVars, logVars>>

OtResponse ==
    /\ ot_pc = "response"
    /\ ot' = [r \in Runs |-> OtAlicePacket(r)]
    /\ ot_pc' = "data"
    /\ UNCHANGED <<ot_in, taskVars, hostVars, codecVars, netVars, uiVars, logVars>>

OtData ==
    /\ ot_pc = "data"
    /\ ot' = [r \in Runs |-> OtBobPacket(r)]
    /\ ot_pc' = "done"
    /\ UNCHANGED <<ot_in, taskVars, hostVars, codecVars, netVars, uiVars, logVars>>

OtNext == OtSend \/ OtGreet \/ OtResponse \/ OtData
SpecOT == OtInit /\ [][OtNext]_vars

(***************************************************************************)
(* Properties of the exchange (SpecOT)                                     *)
(***************************************************************************)

\* C1: for every (m0, m1), initiator scalar a, responder scalar b and bit c,
\* the complete exchange makes the responder emit exactly the plaintext m_c,
\* and the same plaintext when the other message m_(1-c) is replaced.
C1_OtCorrectness ==
    ot_pc = "done" =>
        /\ \A r \in Runs :
              ot[r].yevents = <<EventMessage(AliceAddr, Chosen(OtInput(r)))>>
        /\ ot["alt"].yevents = ot["base"].yevents

C1_Witness ==
    /\ ot_pc = "done"
    /\ ot_in.c /\ ot_in.a = Some(3) /\ ot_in.b = 5
    /\ ot_in.m0 = "hello67890123456hello" /\ ot_in.m1 = "world67890123456world"
    /\ ot_in.other = ""
    /\ ot["base"].yevents = <<EventMessage(AliceAddr, "world67890123456world")>>
    /\ ot["alt"].xlog[1].states[BobAddr].m0 = ""

\* C2: for every a (a = 0 included), b and c, the responder's key H(A*b)
\* equals the initiator's key k_c and differs from the other key k_(1-c).
C2_ExactlyOneKey ==
    ot_pc = "data" =>
        \A r \in Runs :
            LET d == ot[r].wire[1].msg
                key == ot[r].y[AliceAddr].key
                kc == IF OtInput(r).c THEN d.m1.k ELSE d.m0.k
                kn == IF OtInput(r).c THEN d.m0.k ELSE d.m1.k
            IN  key = kc /\ key # kn

\* C3: two complete exchanges that differ only in the responder's bit c give
\* the initiator the same handler steps, the same state map after each step
\* and the same frame types and events; the responder never emits the
\* non-chosen message m_(1-c).
C3_SenderView ==
    /\ ot["flip"].xlog = ot["base"].xlog
    /\ \A r \in Runs :
          OtInput(r).m0 # OtInput(r).m1 =>
              \A i \in DOMAIN ot[r].yevents :
                  ot[r].yevents[i] # EventMessage(AliceAddr, NotChosen(OtInput(r)))

C3_Witness ==
    /\ ot_pc = "done"
    /\ ot_in.m0 # ot_in.m1 /\ ot_in.b = 0 /\ ~ot_in.c
    /\ Len(ot["flip"].xlog) = 2
    /\ ot["flip"].xlog[2] = [step |-> "Response", states |-> EmptyStates,
                             frames |-> <<"Data">>, events |-> <<>>]
    /\ ot["flip"].yevents = <<EventMessage(AliceAddr, ot_in.m1)>>
    /\ ot["base"].yevents = <<EventMessage(AliceAddr, ot_in.m0)>>

\* The one frame in flight in a run, as its type and destination.
InFlightFrame(r) ==
    [i \in DOMAIN ot[r].wire |-> <<ot[r].wire[i].msg.type, ot[r].wire[i].to>>]

\* C29: a complete, undisturbed exchange leaves no state behind.  After
\* Send at alice exactly one Greet is in flight to bob; handling it, bob
\* sends exactly one Response; handling that, alice sends exactly one Data
\* and holds no state for bob; handling that, bob sends nothing, has emitted
\* exactly one event, Message(alice, m_c), and holds no state for alice.
\* alice's handlers sent Greet and Data, one each, and emitted no event.
C29_NoStateLeft ==
    \A r \in Runs :
        /\ ot_pc = "greet" =>
              /\ InFlightFrame(r) = << <<"Greet", BobAddr>> >>
              /\ DOMAIN ot[r].x = {BobAddr} /\ ot[r].y = EmptyStates
        /\ ot_pc = "response" =>
              /\ InFlightFrame(r) = << <<"Response", AliceAddr>> >>
              /\ DOMAIN ot[r].x = {BobAddr} /\ DOMAIN ot[r].y = {AliceAddr}
        /\ ot_pc = "data" =>
              /\ InFlightFrame(r) = << <<"Data", BobAddr>> >>
              /\ ot[r].x = EmptyStates /\ DOMAIN ot[r].y = {AliceAddr}
        /\ ot_pc = "done" =>
              /\ InFlightFrame(r) = <<>>
              /\ ot[r].x = EmptyStates /\ ot[r].y = EmptyStates
              /\ ot[r].yevents = <<EventMessage(AliceAddr, Chosen(OtInput(r)))>>
              /\ [i \in DOMAIN ot[r].xlog |-> ot[r].xlog[i].frames]
                    = << <<"Greet">>, <<"Data">> >>
        /\ \A i \in DOMAIN ot[r].xlog : ot[r].xlog[i].events = <<>>
        /\ ot_pc # "done" => ot[r].yevents = <<>>

\* An exchange with a random initiator scalar and c = 0 is complete: both
\* maps are empty and bob has the message m0.
C29_Witness ==
    /\ ot_pc = "done"
    /\ ot_in.a = None /\ ot_in.ra = 2 /\ ot_in.b = 3 /\ ~ot_in.c
    /\ ot_in.m0 = "hello67890123456hello" /\ ot_in.m1 = ""
    /\ ot["base"].x = EmptyStates /\ ot["base"].y = EmptyStates
    /\ ot["base"].wire = <<>>
    /\ ot["base"].yevents = <<EventMessage(AliceAddr, "hello67890123456hello")>>

(***************************************************************************)
(* SpecCodec: OTMPSocket::recv_from hands every received datagram to       *)
(* Message::try_from.  The datagrams are frames built from every type      *)
(* byte, declared length and payload of the sets below, and their          *)
(* truncations.                                                            *)
(***************************************************************************)
MaxPayload == 3
PayloadBytes == {0, 65, 195, 169}       \* NUL, 'A', and the two bytes of U+00E9
TypeBytes == 0 .. 6
BadMagic == <<79, 84, 77, 81>>

RECURSIVE SeqsUpTo(_, _)
SeqsUpTo(S, n) ==
    IF n = 0 THEN {<<>>}
    ELSE LET shorter == SeqsUpTo(S, n - 1)
         IN  shorter \cup {Append(q, b) : q \in shorter, b \in S}
Filled(b, n) == [i \in 1 .. n |-> b]

Payloads ==
    SeqsUpTo(PayloadBytes, MaxPayload)
        \cup {Filled(65, USERNAME_MAX), Filled(65, USERNAME_MAX + 1)}
        \cup {Filled(65, 2 * USERNAME_MAX), Filled(255, USERNAME_MAX + 1)}
        \cup {point_to_bytes(k) : k \in Points}
        \cup {<<2>> \o BeField(0), <<3>> \o BeField(Order), <<5>> \o BeField(1)}
        \cup {<<4>> \o BeField(1) \o BeField(1), <<4>> \o BeField(1) \o BeField(2)}
RawFrame(magic, type_byte, size, payload) ==
    magic \o <<type_byte, size \div 256, size % 256>> \o payload
Datagrams ==
    {RawFrame(magic, t, size, payload) :
        magic \in {MAGIC_NUMBER, BadMagic}, t \in TypeBytes,
        <<payload, size>> \in {<<p, n>> \in Payloads \X (0 .. 2) : TRUE}
                              \cup {<<p, Len(p)>> : p \in Payloads}
                              \cup {<<p, Len(p) + 1>> : p \in Payloads}
                              \cup {<<p, 256 + Len(p)>> : p \in Payloads}}
        \cup {SubSeq(magic \o <<5, 0, 0>>, 1, n) :
                 magic \in {MAGIC_NUMBER, BadMagic}, n \in 0 .. 6}

\* Messages with a valid payload: usernames of 1 ..= USERNAME_MAX bytes of
\* UTF-8, every point, ciphertext pairs with either part empty or long
\* enough to use the high byte of a length field.
CodecNames == {<<65>>, <<195, 169>>, <<65, 195, 169>>, Filled(65, USERNAME_MAX)}
CodecParts == SeqsUpTo(PayloadBytes, 1) \cup {Filled(7, 300)}
CodecMessages ==
    {BroadcastGreet(n) : n \in CodecNames}
        \cup {BroadcastResponse(n) : n \in CodecNames}
        \cup {BroadcastBye}
        \cup {Greet(k) : k \in Points} \cup {Response(k) : k \in Points}
        \cup {Data(m0, m1) : m0 \in CodecParts, m1 \in CodecParts}

\* Either a datagram arrives from anywhere, or a Message is about to be
\* encoded by OTMPSocket::send_to and decoded by the peer's recv_from.
CodecInit ==
    /\ \/ /\ codec_pc = "recv"
          /\ message = NoMessage
          /\ datagram \in Datagrams
       \/ /\ codec_pc = "encode"
          /\ message \in CodecMessages
          /\ datagram = <<>>
    /\ decoded = Idle
    /\ OtIdle /\ TaskIdle /\ HostIdle /\ NetIdle /\ UiIdle /\ LogIdle

\* OTMPSocket::send_to: message.into_bytes(); the datagram arrives unchanged.
CodecEncode ==
    /\ codec_pc = "encode"
    /\ datagram' = into_bytes(message)
    /\ codec_pc' = "recv"
    /\ UNCHANGED <<message, decoded, otVars, taskVars, hostVars, netVars, uiVars, logVars>>

\* OTMPSocket::recv_from: Message::try_from(&buffer[..size])
CodecDecode ==
    /\ codec_pc = "recv"
    /\ decoded' = try_from(datagram)
    /\ codec_pc' = "done"
    /\ UNCHANGED <<message, datagram, otVars, taskVars, hostVars, netVars, uiVars, logVars>>

CodecNext == CodecEncode \/ CodecDecode
SpecCodec == CodecInit /\ [][CodecNext]_vars

\* C10: the decoder returns a Message or a MessageError for every byte slice
\* and never indexes outside it; a Data frame whose declared payload length
\* is below 2 is rejected with InvalidMessageLength.
C10_DecoderTotal ==
    codec_pc = "done" =>
        /\ decoded.tag \in {"Ok", "Err"}
        /\ ( /\ Len(datagram) >= HEADER_SIZE
             /\ Slice(datagram, 0, 4) = MAGIC_NUMBER
             /\ At(datagram, 4) = 5
             /\ Len(datagram) = HEADER_SIZE + BeU16(At(datagram, 5), At(datagram, 6))
             /\ BeU16(At(datagram, 5), At(datagram, 6)) < 2
             => decoded = DecodeErr(InvalidMessageLength) )

\* C11: codec round trip: decoding the bytes the encoder produces for a
\* Message with a valid payload returns that Message, same variant and same
\* payload.
C11_RoundTrip ==
    codec_pc = "done" /\ message # NoMessage => decoded = DecodeOk(message)

C11_Witness ==
    /\ codec_pc = "done"
    /\ message = Data(<<>>, Filled(7, 300))
    /\ decoded = DecodeOk(message)

\* C12: the decoder reports the first check that fails, in the order: fewer
\* than 7 bytes (MissingHeaderBytes), first four bytes not "OTMP"
\* (InvalidMagicNumber), length other than 7 + L (InvalidMessageLength), type
\* byte above 5 (InvalidMessageType), type 2 with L # 0
\* (InvalidMessageLength); the first, second and fourth error come from
\* nothing else.
C12_FirstFailingCheck ==
    codec_pc = "done" =>
        LET n == Len(datagram)
            short == n < 7
            magic == ~short /\ SubSeq(datagram, 1, 4) # <<79, 84, 77, 80>>
            L == datagram[6] * 256 + datagram[7]
            length == ~short /\ ~magic /\ n # 7 + L
            type == ~short /\ ~magic /\ ~length /\ datagram[5] > 5
            bye == ~short /\ ~magic /\ ~length /\ datagram[5] = 2 /\ L # 0
        IN  /\ short <=> decoded = DecodeErr(MissingHeaderBytes)
            /\ magic <=> decoded = DecodeErr(InvalidMagicNumber)
            /\ length \/ bye => decoded = DecodeErr(InvalidMessageLength)
            /\ type <=> decoded = DecodeErr(InvalidMessageType)

\* A Bye frame with L = 1, of consistent length, is refused for its length.
C12_Witness ==
    /\ codec_pc = "done"
    /\ Len(datagram) = 8
    /\ SubSeq(datagram, 1, 7) = <<79, 84, 77, 80, 2, 0, 1>>
    /\ decoded = DecodeErr(InvalidMessageLength)

\* A decoded frame of type 0 or 1 whose length field matches its length,
\* and its payload.
NameFrame ==
    /\ codec_pc = "done"
    /\ Len(datagram) >= 7
    /\ SubSeq(datagram, 1, 4) = <<79, 84, 77, 80>>
    /\ datagram[5] \in {0, 1}
    /\ Len(datagram) = 7 + datagram[6] * 256 + datagram[7]
NamePayload == SubSeq(datagram, 8, Len(datagram))
NameDecoded ==
    IF datagram[5] = 0 THEN DecodeOk(BroadcastGreet(NamePayload))
                       ELSE DecodeOk(BroadcastResponse(NamePayload))

\* C13 (as claimed): a BroadcastGreet or BroadcastResponse frame of consistent
\* length decodes exactly when its payload is valid UTF-8 of 1 ..= 100 bytes;
\* an empty payload gives InvalidUsername(Empty), a payload of 101 or more
\* bytes gives InvalidUsername(TooLong).
C13_UsernameBound ==
    NameFrame =>
        /\ decoded.tag = "Ok" <=>
               from_utf8(NamePayload) /\ Len(NamePayload) \in 1 .. 100
        /\ Len(NamePayload) = 0 => decoded = DecodeErr(InvalidUsername("Empty"))
        /\ Len(NamePayload) >= 101 => decoded = DecodeErr(InvalidUsername("TooLong"))

\* C13 (amended): such a frame decodes, to the variant of its type byte with
\* the payload as name, exactly when its payload is valid UTF-8 of 1 ..= 100
\* bytes; a payload that is not valid UTF-8 gives InvalidUtf8 whatever its
\* length; an empty payload gives InvalidUsername(Empty) and a valid UTF-8
\* payload of 101 or more bytes gives InvalidUsername(TooLong).
C13_UsernameBoundUtf8 ==
    NameFrame =>
        /\ decoded.tag = "Ok" <=>
               from_utf8(NamePayload) /\ Len(NamePayload) \in 1 .. 100
        /\ decoded.tag = "Ok" => decoded = NameDecoded
        /\ ~from_utf8(NamePayload) => decoded = DecodeErr(InvalidUtf8)
        /\ Len(NamePayload) = 0 => decoded = DecodeErr(InvalidUsername("Empty"))
        /\ from_utf8(NamePayload) /\ Len(NamePayload) >= 101
               => decoded = DecodeErr(InvalidUsername("TooLong"))

\* A 101-byte payload that is valid UTF-8 has been refused as TooLong.
C13_Witness ==
    /\ NameFrame
    /\ Len(NamePayload) = 101 /\ from_utf8(NamePayload)
    /\ decoded = DecodeErr(InvalidUsername("TooLong"))

\* A decoded frame of type 3 or 4 whose length field matches its length,
\* and its payload.
PointFrame ==
    /\ codec_pc = "done"
    /\ Len(datagram) >= 7
    /\ SubSeq(datagram, 1, 4) = <<79, 84, 77, 80>>
    /\ datagram[5] \in {3, 4}
    /\ Len(datagram) = 7 + datagram[6] * 256 + datagram[7]
PointPayload == SubSeq(datagram, 8, Len(datagram))

\* C14: a Greet or Response frame is accepted only when its payload is the
\* 33-byte compressed SEC1 encoding of a point other than the identity; every
\* other payload (the identity, another length or form, a value off the
\* curve) is rejected with InvalidPoint.
C14_PointAccepted ==
    PointFrame =>
        IF /\ Len(PointPayload) = 33
           /\ PointPayload[1] \in {2, 3}
           /\ \E k \in Points \ {IDENTITY} : PointPayload = point_to_bytes(k)
        THEN decoded.tag = "Ok"
        ELSE decoded = DecodeErr(InvalidCrypto("InvalidPoint"))

(***************************************************************************)
(* The network task (task.rs): run and one iteration of main_loop.         *)
(***************************************************************************)
\* OTMPSocket::recv_from.  rx is what the socket delivers: an I/O error, a
\* datagram given by its bytes, or a well-formed frame given by the Message
\* it decodes to.
recv_from(rx) ==
    IF ~rx.io_ok THEN DecodeErr(SocketError)
    ELSE IF "bytes" \in DOMAIN rx
    THEN LET d == try_from(rx.bytes)
         IN  IF d.tag = "Err" THEN DecodeErr(MessageError(d.err)) ELSE d
    ELSE DecodeOk(rx.msg)

\* failed: the select expression evaluated to Err, which send_error reports.
Iteration(new_states, ops, still_running, failed, panicked) ==
    [states |-> new_states, ops |-> ops, running |-> still_running,
     failed |-> failed, panicked |-> panicked]

\* A variant of the socket branch that ends the loop on a receive error.
select_socket_fatal(cur, name, rx, addr, env) ==
    LET r == recv_from(rx)
    IN  CASE r.tag = "Panic" -> Iteration(cur, <<>>, TRUE, FALSE, TRUE)
          [] r.tag = "Err" ->
                Iteration(cur, <<EmitOp(EventError(r.err))>>, FALSE, TRUE, FALSE)
          [] r.tag = "Ok" ->
                LET h == on_packet(cur, name, r.msg, addr, env)
                IN  Iteration(h.states, after_handler(h), TRUE, ~h.result.ok, FALSE)

\* The socket branch of the select, then the error report.
select_socket(cur, name, rx, addr, env) ==
    LET r == recv_from(rx)
    IN  CASE r.tag = "Panic" -> Iteration(cur, <<>>, TRUE, FALSE, TRUE)
          [] r.tag = "Err" ->
                Iteration(cur, <<EmitOp(EventError(r.err))>>, TRUE, TRUE, FALSE)
          [] r.tag = "Ok" ->
                LET h == on_packet(cur, name, r.msg, addr, env)
                IN  Iteration(h.states, after_handler(h), TRUE, ~h.result.ok, FALSE)

\* A variant that forgets to clear running on Disconnect.
select_action_keeps_running(cur, name, action, env) ==
    LET h == on_action(cur, name, action, env)
    IN  Iteration(h.states, after_handler(h), TRUE, ~h.result.ok, FALSE)

\* The action branch of the select with Some(action), then the error report.
select_action(cur, name, action, env) ==
    LET h == on_action(cur, name, action, env)
    IN  Iteration(h.states, after_handler(h), action.type # "Disconnect",
                  ~h.result.ok, FALSE)

\* NetworkTask::run when OTMPSocket::bind fails.
bind_failed == <<EmitNoRepaintOp(EventError(SocketBindError))>>

(***************************************************************************)
(* SpecTask: the task alone.  Its environment delivers datagrams and       *)
(* actions in any order; the events it emits are recorded, not queued.     *)
(* round describes the last iteration: what was handled, what the handler  *)
(* read from outside (env), which state the map held for that address      *)
(* before, and the frames and events produced.                             *)
(***************************************************************************)
TaskScalars == {0, 1, 3}
TaskAddrs == {LocalAddr, PeerAddr}
TaskSendPairs == {<<"hello67890123456hello", "world67890123456world">>}
TaskCiphertexts(m) == {cbc_encrypt(into_key(k), m) : k \in TaskScalars}
TaskMessages ==
    {BroadcastGreet(BobName), BroadcastResponse(BobName), BroadcastBye}
        \cup {Greet(p) : p \in TaskScalars} \cup {Response(p) : p \in TaskScalars}
        \cup {Data(c0, c1) : <<c0, c1>> \in
                UNION {TaskCiphertexts(pair[1]) \X TaskCiphertexts(pair[2]) :
                          pair \in TaskSendPairs}}
\* Datagrams the decoder does not accept.
TaskRawDatagrams ==
    {d \in {<<79, 84>>,
            RawFrame(BadMagic, 2, 0, <<>>),
            RawFrame(MAGIC_NUMBER, 2, 1, <<0>>),
            RawFrame(MAGIC_NUMBER, 2, 1, <<>>),
            RawFrame(MAGIC_NUMBER, 9, 0, <<>>),
            RawFrame(MAGIC_NUMBER, 0, 0, <<>>),
            RawFrame(MAGIC_NUMBER, 1, 1, <<195>>),
            RawFrame(MAGIC_NUMBER, 3, 1, <<7>>),
            RawFrame(MAGIC_NUMBER, 5, 3, <<0, 2, 65>>),
            RawFrame(MAGIC_NUMBER, 5, 1, <<0>>),
            RawFrame(MAGIC_NUMBER, 5, 0, <<>>)} : try_from(d).tag # "Ok"}
TaskReceives ==
    {[io_ok |-> FALSE]} \cup {[io_ok |-> TRUE, bytes |-> d] : d \in TaskRawDatagrams}
        \cup {[io_ok |-> TRUE, msg |-> m] : m \in TaskMessages}
TaskActions ==
    {ActionBroadcast, ActionDisconnect}
        \cup {ActionSend(addr, pair[1], pair[2], a) :
                 addr \in TaskAddrs, pair \in TaskSendPairs,
                 a \in {None} \cup {Some(v) : v \in TaskScalars}}

DefaultEnv ==
    [ip_ok |-> TRUE, local_ip |-> LOCAL_IP, send_ok |-> TRUE, bcast |-> "Ok",
     a |-> 1, b |-> 1, c |-> FALSE, junk |-> InvalidUtf8Bytes]
BroadcastOutcomes ==
    {"Ok", "LocalIpNotFound", "InternetInterfaceError", "BroadcastAddressNotFound"}
\* The outside values a handler of this kind of input reads.
PacketEnvs(rx) ==
    IF ~rx.io_ok \/ "bytes" \in DOMAIN rx THEN {DefaultEnv}
    ELSE CASE rx.msg.type \in {"BroadcastGreet", "BroadcastBye"} ->
                {[DefaultEnv EXCEPT !.ip_ok = i, !.send_ok = s] :
                    i \in BOOLEAN, s \in BOOLEAN}
           [] rx.msg.type = "Greet" ->
                {[DefaultEnv EXCEPT !.send_ok = s, !.b = b, !.c = c] :
                    s \in BOOLEAN, b \in TaskScalars, c \in BOOLEAN}
           [] rx.msg.type = "Data" ->
                {[DefaultEnv EXCEPT !.junk = j] : j \in Junk}
           [] OTHER -> {[DefaultEnv EXCEPT !.send_ok = s] : s \in BOOLEAN}
ActionEnvs(action) ==
    IF action.type = "Send"
    THEN {[DefaultEnv EXCEPT !.send_ok = s, !.a = a] :
             s \in BOOLEAN, a \in IF action.a.some THEN {1} ELSE TaskScalars}
    ELSE {[DefaultEnv EXCEPT !.send_ok = s, !.bcast = o] :
             s \in BOOLEAN, o \in BroadcastOutcomes}

StateTag(cur, addr) == IF addr \in DOMAIN cur THEN cur[addr].tag ELSE "none"

TaskInit ==
    /\ task_pc = "bind"
    /\ running = FALSE
    /\ states = EmptyStates
    /\ pending = <<>>
    /\ round = NoRound
    /\ OtIdle /\ HostIdle /\ CodecIdle /\ NetIdle /\ UiIdle /\ LogIdle

\* run: bind succeeded, the task enters main_loop with running = true.
TkBindOk ==
    /\ task_pc = "bind"
    /\ task_pc' = "select"
    /\ running' = TRUE
    /\ round' = [kind |-> "bind", ops |-> <<>>, failed |-> FALSE]
    /\ UNCHANGED <<states, pending, otVars, hostVars, codecVars, netVars, uiVars, logVars>>

\* run: bind failed, the task reports it and returns.
TkBindFailed ==
    /\ task_pc = "bind"
    /\ task_pc' = "done"
    /\ round' = [kind |-> "bind", ops |-> bind_failed, failed |-> TRUE]
    /\ UNCHANGED <<running, states, pending, otVars, hostVars, codecVars, netVars, uiVars, logVars>>

\* One iteration of main_loop in which the socket branch wins.
TkSocket ==
    /\ task_pc = "select" /\ running
    /\ \E rx \in TaskReceives, addr \in TaskAddrs :
         \E env \in PacketEnvs(rx) :
            LET it == select_socket(states, AliceName, rx, addr, env)
            IN  /\ states' = it.states
                /\ running' = it.running
                /\ task_pc' = IF it.panicked THEN "panicked"
                              ELSE IF it.running THEN "select" ELSE "done"
                /\ round' = [kind |-> "socket", rx |-> rx, addr |-> addr,
                             env |-> env,
                             was |-> StateTag(states, addr), ops |-> it.ops,
                             failed |-> it.failed]
    /\ UNCHANGED <<pending, otVars, hostVars, codecVars, netVars, uiVars, logVars>>

\* One iteration of main_loop in which the action branch yields an action.
TkAction ==
    /\ task_pc = "select" /\ running
    /\ \E action \in TaskActions :
         \E env \in ActionEnvs(action) :
            LET it == select_action(states, AliceName, action, env)
            IN  /\ states' = it.states
                /\ running' = it.running
                /\ task_pc' = IF it.running THEN "select" ELSE "done"
                /\ round' = [kind |-> "action", action |-> action, env |-> env,
                             ops |-> it.ops, failed |-> it.failed]
    /\ UNCHANGED <<pending, otVars, hostVars, codecVars, netVars, uiVars, logVars>>

\* One iteration in which receiver.recv() yields None: every sender is gone.
TkChannelClosed ==
    /\ task_pc = "select" /\ running
    /\ running' = FALSE
    /\ task_pc' = "done"
    /\ round' = [kind |-> "closed", ops |-> <<>>, failed |-> FALSE]
    /\ UNCHANGED <<states, pending, otVars, hostVars, codecVars, netVars, uiVars, logVars>>

TaskNext == TkBindOk \/ TkBindFailed \/ TkSocket \/ TkAction \/ TkChannelClosed
SpecTask == TaskInit /\ [][TaskNext]_vars

(***************************************************************************)
(* Properties of the task's handlers (SpecTask)                            *)
(***************************************************************************)
\* The type of the Message the last iteration handled, "none" if it handled none.
HandledType(r) ==
    IF r.kind = "socket" /\ r.rx.io_ok /\ "msg" \in DOMAIN r.rx
    THEN r.rx.msg.type ELSE "none"
ErrorEvents(ops) == SelectSeq(EventsOf(ops), LAMBDA e : e.event = "Error")

\* C4: a Response or a Data from an address without an entry in the state
\* map makes the task emit Error(IncorrectMessage(addr)) and nothing else,
\* send no frame, and leaves the map without an entry for that address.
C4_NoStateRejected ==
    HandledType(round) \in {"Response", "Data"} /\ round.was = "none" =>
        /\ round.ops = <<EmitOp(EventError(IncorrectMessage(round.addr)))>>
        /\ round.addr \notin DOMAIN states

C4_Witness ==
    /\ HandledType(round) = "Response" /\ round.was = "none"
    /\ round.addr = PeerAddr
    /\ round.ops = <<EmitOp(EventError(IncorrectMessage(PeerAddr)))>>
    /\ DOMAIN states = {LocalAddr}
    /\ task_pc = "select"

\* C5: a packet that does not match the state held for its address (Response
\* on GreetReceived, Data on GreetSent) fails with IncorrectMessage(addr) and
\* leaves the state map exactly as it was.
C5_MismatchKeepsStates ==
    [][ ( \/ HandledType(round') = "Response" /\ round'.was = "GreetReceived"
          \/ HandledType(round') = "Data" /\ round'.was = "GreetSent" )
        => /\ round'.ops = <<EmitOp(EventError(IncorrectMessage(round'.addr)))>>
           /\ states' = states ]_vars

\* C15: loopback suppression.  Handling a BroadcastGreet whose source IP is
\* the local primary IP emits no event and sends no frame; when the source
\* IP differs the task emits Connected(addr, name) and then sends
\* BroadcastResponse(own name) to addr (a send the socket refuses is reported
\* as Error(SocketError)).  When local_ip() finds no local IP, the only
\* effect is Error(LocalIpNotFound).
C15_LoopbackSuppression ==
    HandledType(round) = "BroadcastGreet" =>
        LET connected == EmitOp(EventConnected(round.addr, round.rx.msg.name))
            response == SendOp(BroadcastResponse(AliceName), round.addr)
        IN  IF ~round.env.ip_ok
            THEN round.ops = <<EmitOp(EventError(LocalIpNotFound))>>
            ELSE IF round.addr.ip = LOCAL_IP THEN round.ops = <<>>
            ELSE IF round.env.send_ok THEN round.ops = <<connected, response>>
            ELSE round.ops = <<connected, EmitOp(EventError(SocketError))>>

\* A greeting from the host's own address went unanswered while an exchange
\* with a peer is in progress.
C15_Witness ==
    /\ HandledType(round) = "BroadcastGreet"
    /\ round.env.ip_ok /\ round.addr = LocalAddr
    /\ round.ops = <<>>
    /\ PeerAddr \in DOMAIN states

\* C17: handling BroadcastBye from addr emits Disconnected(addr) exactly when
\* addr's IP differs from the local primary IP (and only Error(LocalIpNotFound)
\* when local_ip() finds none); the state map is unchanged in every case.
C17_ByeKeepsStates ==
    [][ HandledType(round') = "BroadcastBye" =>
          /\ states' = states
          /\ round'.ops =
                IF ~round'.env.ip_ok THEN <<EmitOp(EventError(LocalIpNotFound))>>
                ELSE IF round'.addr.ip # LOCAL_IP
                THEN <<EmitOp(EventDisconnected(round'.addr))>>
                ELSE <<>> ]_vars

\* A peer with an exchange in progress has said bye.
C17_Witness ==
    /\ HandledType(round) = "BroadcastBye"
    /\ round.env.ip_ok /\ round.addr = PeerAddr
    /\ round.ops = <<EmitOp(EventDisconnected(PeerAddr))>>
    /\ PeerAddr \in DOMAIN states

\* C9: the task never panics on what the network delivers, and after every
\* error of the socket receive (a decode failure included), of a packet
\* handler or of an action handler other than Disconnect it has emitted
\* exactly one Event::Error and is back at the select with running = true.
C9_ErrorsAreReported ==
    /\ task_pc # "panicked"
    /\ ( /\ round.kind \in {"socket", "action"}
         /\ round.failed
         /\ ~(round.kind = "action" /\ round.action.type = "Disconnect")
         => /\ Len(ErrorEvents(round.ops)) = 1
            /\ running /\ task_pc = "select" )
    /\ ( round.kind = "socket" /\ ~(round.rx.io_ok /\ "msg" \in DOMAIN round.rx)
         => round.failed )

\* The iteration just run consumed Action::Disconnect.
ConsumedDisconnect(r) == r.kind = "action" /\ r.action.type = "Disconnect"

\* C18: the iteration that consumes Disconnect sends BroadcastBye to the
\* broadcast address exactly once (no frame, and one Error event, when the
\* broadcast address is not found or the socket refuses the send), leaves
\* the state map alone and is the task's last: from the state it ends in the
\* task takes no further step, whatever datagrams and actions are on offer.
C18_DisconnectStops ==
    [][ /\ ConsumedDisconnect(round') =>
              /\ task_pc' = "done" /\ ~running'
              /\ states' = states
              /\ IF round'.env.bcast = "Ok" /\ round'.env.send_ok
                 THEN round'.ops = <<SendOp(BroadcastBye, BroadcastAddr)>>
                 ELSE /\ Frames(round'.ops) = <<>>
                      /\ Len(ErrorEvents(round'.ops)) = 1
        /\ ~ConsumedDisconnect(round) ]_vars

\* Disconnect was consumed with an exchange in progress, and the bye went out.
C18_Witness ==
    /\ ConsumedDisconnect(round)
    /\ round.ops = <<SendOp(BroadcastBye, BroadcastAddr)>>
    /\ task_pc = "done" /\ ~running
    /\ PeerAddr \in DOMAIN states

\* C19: the task has left its loop exactly when the last iteration consumed
\* Disconnect or found the action channel closed; after every other
\* iteration (a datagram, a decode error, a socket error, a handler error)
\* it is back at the select with running = true.
C19_ExitOnlyOnDisconnect ==
    round.kind \in {"socket", "action", "closed"} =>
        IF ConsumedDisconnect(round) \/ round.kind = "closed"
        THEN task_pc = "done" /\ ~running
        ELSE task_pc = "select" /\ running

DataNotUtf8 ==
    /\ HandledType(round') = "Data"
    /\ round'.addr \in DOMAIN states
    /\ LET state == states[round'.addr]
           msg == round'.rx.msg
       IN  /\ state.tag = "GreetReceived"
           /\ ~from_utf8_ok(cbc_decrypt(state.key,
                                         IF state.c THEN msg.m1 ELSE msg.m0,
                                         round'.env.junk))

\* C23 (as claimed): when the responder handles Data and the decryption of
\* the chosen ciphertext is not valid UTF-8, the task emits one Error event
\* carrying InvalidMessage, and the state of that address is removed.
C23_ReportsInvalidMessage ==
    [][ DataNotUtf8
        => /\ \E i \in DOMAIN round'.ops :
                 /\ round'.ops[i].op = "send_event"
                 /\ round'.ops[i].ev.event = "Error"
                 /\ round'.ops[i].ev.error.kind = "InvalidMessage"
           /\ round'.addr \notin DOMAIN states' ]_vars

\* C23 (amended): in that case the task emits exactly one event,
\* Error(IncorrectMessage(addr)), sends no frame, and the state of that
\* address is removed; the other entries of the map stay as they were.
C23_ReportsIncorrectMessage ==
    [][ DataNotUtf8
        => /\ round'.ops = <<EmitOp(EventError(IncorrectMessage(round'.addr)))>>
           /\ states' = StatesRemove(states, round'.addr) ]_vars

\* A Data from the peer was handled while the map held GreetReceived for it
\* and for the local address; it failed, and only the peer's entry is gone.
C23_Witness ==
    /\ HandledType(round) = "Data" /\ round.was = "GreetReceived"
    /\ round.addr = PeerAddr
    /\ round.env.junk = InvalidUtf8Bytes
    /\ round.ops = <<EmitOp(EventError(IncorrectMessage(PeerAddr)))>>
    /\ DOMAIN states = {LocalAddr}

\* The entry of addr in the state map is removed or replaced by the step.
EntryChanged(addr) ==
    /\ addr \in DOMAIN states
    /\ addr \notin DOMAIN states' \/ states'[addr] # states[addr]
\* The step handles a Greet, Response or Data that came from addr.
ExchangePacketFrom(addr) ==
    /\ HandledType(round') \in {"Greet", "Response", "Data"}
    /\ round'.addr = addr
\* The step handles the action Send(addr, ..).
SendActionTo(addr) ==
    /\ round'.kind = "action"
    /\ round'.action.type = "Send"
    /\ round'.action.addr = addr

\* C30 (as claimed): an entry of the state map is removed or replaced only by
\* handling a Greet, Response or Data packet from its own address; no action,
\* no packet from another address and no error changes it.
C30_OnlyPacketsChangeEntry ==
    [][ \A addr \in TaskAddrs : EntryChanged(addr) => ExchangePacketFrom(addr) ]_vars

\* C30 (amended): an entry of the state map is removed or replaced only by
\* handling a Greet, Response or Data packet from its own address or the
\* action Send to that address; no other action, no packet from another
\* address, no discovery frame, no receive or decode error changes it.
C30_OnlyOwnAddressChangesEntry ==
    [][ \A addr \in TaskAddrs :
           EntryChanged(addr) => ExchangePacketFrom(addr) \/ SendActionTo(addr) ]_vars

\* The half-exchange with the local address is still in the map after the
\* peer's exchange went on: a Response from the peer took the peer's entry.
C30_Witness ==
    /\ HandledType(round) = "Response" /\ round.was = "GreetSent"
    /\ round.addr = PeerAddr
    /\ DOMAIN states = {LocalAddr}
    /\ states[LocalAddr].tag = "GreetReceived"

\* C22: every event the task sends to the event channel is followed by one
\* call of the repaint callback: each send_event operation of an iteration,
\* the bind failure's Error(SocketBindError) included, is one that calls
\* request_repaint after the channel send.
C22_RepaintAfterEveryEvent ==
    \A i \in DOMAIN round.ops :
        round.ops[i].op = "send_event" => round.ops[i].repaint

(***************************************************************************)
(* The host facade and the channels (peer.rs).                             *)
(* CHANNEL_SIZE is the capacity of both tokio mpsc channels: 100 in the    *)
(* source, scaled down here.                                               *)
(***************************************************************************)
CHANNEL_SIZE == 2

\* A variant that keeps one slot of the channel unused.
has_capacity_short(channel) == Len(channel) < CHANNEL_SIZE - 1

\* Whether a bounded channel made by channel(CHANNEL_SIZE) takes one more value.
has_capacity(channel) == Len(channel) < CHANNEL_SIZE

\* The task's Receiver<Action> lives until run returns or unwinds.
ActionRxAlive == task_pc \notin {"done", "panicked"}
\* The host's Sender<Action> and Receiver<Event> live as long as the NetworkHost.
HostAlive == ui_pc \notin {"returned", "dropped"}

(***************************************************************************)
(* The task's side of the event channel: Sender::send(event).await waits   *)
(* for room and fails at once when the receiver is gone.  RunOps performs  *)
(* the operations of an iteration in order until one has to wait.          *)
(***************************************************************************)
RECURSIVE RunOps(_, _, _)
RunOps(ops, queue, rx_alive) ==
    IF ops = <<>> THEN [events |-> queue, rest |-> <<>>]
    ELSE IF Head(ops).op = "send_to" THEN RunOps(Tail(ops), queue, rx_alive)
    ELSE IF ~rx_alive THEN RunOps(Tail(ops), queue, rx_alive)
    ELSE IF has_capacity(queue)
    THEN RunOps(Tail(ops), Append(queue, Head(ops).ev), rx_alive)
    ELSE [events |-> queue, rest |-> ops]

(***************************************************************************)
(* Spec: the UI thread inside NetworkHost, the task thread, the channels.  *)
(* The initial state is NetworkHost::new after spawn: the task is about to *)
(* bind, the UI thread about to submit the first Broadcast.                *)
(***************************************************************************)
HostReceives ==
    {[io_ok |-> FALSE],
     [io_ok |-> TRUE, bytes |-> RawFrame(MAGIC_NUMBER, 5, 0, <<>>)],
     [io_ok |-> TRUE, bytes |-> RawFrame(MAGIC_NUMBER, 2, 1, <<0>>)],
     [io_ok |-> TRUE, msg |-> BroadcastGreet(BobName)],
     [io_ok |-> TRUE, msg |-> BroadcastBye],
     [io_ok |-> TRUE, msg |-> Greet(1)],
     [io_ok |-> TRUE, msg |-> Response(1)],
     [io_ok |-> TRUE, msg |-> Data(cbc_encrypt(into_key(1), "hello67890123456hello"),
                                   cbc_encrypt(into_key(0), "world67890123456world"))]}
HostSends == {ActionSend(PeerAddr, "hello67890123456hello", "world67890123456world", Some(1))}
HostEnvs == {[DefaultEnv EXCEPT !.send_ok = s] : s \in BOOLEAN}

Init ==
    /\ task_pc = "bind"
    /\ running = FALSE
    /\ states = EmptyStates
    /\ pending = <<>>
    /\ round = NoRound
    /\ actions = <<>>
    /\ events = <<>>
    /\ ui_pc = "new"
    /\ ui_call = Idle
    /\ ui_ret = Idle
    /\ joined = FALSE
    /\ OtIdle /\ CodecIdle /\ NetIdle /\ UiIdle /\ LogIdle

\* The task side of one iteration: perform its operations, then loop or leave.
\* A task that has left has dropped its Receiver<Action> and what it held.
\* first_frame keeps the first frame among the operations performed so far.
Finish(it, queue) ==
    LET r == RunOps(it.ops, queue, HostAlive)
        next_pc == IF it.panicked THEN "panicked"
                   ELSE IF r.rest # <<>> THEN "send_event"
                   ELSE IF it.running THEN "select" ELSE "done"
        sent == Frames(SubSeq(it.ops, 1, Len(it.ops) - Len(r.rest)))
    IN  /\ states' = it.states
        /\ running' = it.running
        /\ events' = r.events
        /\ pending' = r.rest
        /\ task_pc' = next_pc
        /\ first_frame' = IF first_frame = NoMessage /\ sent # <<>>
                          THEN sent[1].msg ELSE first_frame

\* run: bind succeeded.
RunBindOk ==
    /\ task_pc = "bind"
    /\ task_pc' = "select"
    /\ running' = TRUE
    /\ UNCHANGED <<states, pending, round, hostVars, otVars, codecVars, netVars, uiVars, logVars>>

\* run: bind failed; the error is sent and run returns.
RunBindFailed ==
    /\ task_pc = "bind"
    /\ Finish(Iteration(states, bind_failed, FALSE, TRUE, FALSE), events)
    /\ actions' = <<>>
    /\ UNCHANGED <<round, ui_pc, ui_call, ui_ret, joined, otVars, codecVars, netVars, uiVars, first_action>>

\* main_loop: the socket branch of the select wins.
LoopSocket ==
    /\ task_pc = "select" /\ running
    /\ \E rx \in HostReceives, env \in HostEnvs :
          LET it == select_socket(states, AliceName, rx, PeerAddr, env)
          IN  /\ Finish(it, events)
              /\ actions' = IF it.panicked THEN <<>> ELSE actions
    /\ UNCHANGED <<round, ui_pc, ui_call, ui_ret, joined, otVars, codecVars, netVars, uiVars, first_action>>

\* A variant of the action branch that is also polled while a handler waits
\* in send_event.
LoopAction_interleaved ==
    /\ task_pc \in {"select", "send_event"} /\ running
    /\ actions # <<>>
    /\ \E env \in HostEnvs :
          LET it == select_action(states, AliceName, Head(actions), env)
              r == RunOps(it.ops, events, HostAlive)
          IN  /\ Finish(it, events)
              /\ actions' = IF ~it.running /\ r.rest = <<>> THEN <<>>
                            ELSE Tail(actions)
    /\ UNCHANGED <<round, ui_pc, ui_call, ui_ret, joined, otVars, codecVars, netVars, uiVars>>
    /\ first_action' = IF first_action = Idle THEN Head(actions).type ELSE first_action

\* main_loop: the action branch of the select yields Some(action).
LoopAction ==
    /\ task_pc = "select" /\ running
    /\ actions # <<>>
    /\ \E env \in HostEnvs :
          LET it == select_action(states, AliceName, Head(actions), env)
              r == RunOps(it.ops, events, HostAlive)
          IN  /\ Finish(it, events)
              /\ actions' = IF ~it.running /\ r.rest = <<>> THEN <<>>
                            ELSE Tail(actions)
    /\ UNCHANGED <<round, ui_pc, ui_call, ui_ret, joined, otVars, codecVars, netVars, uiVars>>
    /\ first_action' = IF first_action = Idle THEN Head(actions).type ELSE first_action

\* main_loop: receiver.recv() yields None, every Sender<Action> is gone.
LoopClosed ==
    /\ task_pc = "select" /\ running
    /\ actions = <<>> /\ ~HostAlive
    /\ running' = FALSE
    /\ task_pc' = "done"
    /\ UNCHANGED <<states, pending, round, hostVars, otVars, codecVars, netVars, uiVars, logVars>>

\* A handler that waited in send_event goes on once the channel has room
\* (or the receiver is gone).
LoopResume ==
    /\ task_pc = "send_event"
    /\ has_capacity(events) \/ ~HostAlive
    /\ Finish(Iteration(states, pending, running, FALSE, FALSE), events)
    /\ actions' = IF ~running /\ RunOps(pending, events, HostAlive).rest = <<>>
                  THEN <<>> ELSE actions
    /\ UNCHANGED <<round, ui_pc, ui_call, ui_ret, joined, otVars, codecVars, netVars, uiVars, first_action>>

\* A variant of blocking_send that does not notice that the receiver is gone.
Submit_unchecked(action, waiting, back) ==
    IF has_capacity(actions)
    THEN /\ actions' = Append(actions, action)
         /\ ui_ret' = "Ok" /\ ui_pc' = back /\ ui_call' = Idle
    ELSE /\ ui_pc' = waiting /\ ui_call' = action
         /\ UNCHANGED <<actions, ui_ret>>

\* Sender::blocking_send(action) from the state `back` of the UI thread:
\* Err when the receiver is gone, at once when there is room, else wait.
Submit(action, waiting, back) ==
    IF ~ActionRxAlive
    THEN /\ ui_ret' = "TaskClosed" /\ ui_pc' = back /\ ui_call' = Idle
         /\ UNCHANGED actions
    ELSE IF has_capacity(actions)
    THEN /\ actions' = Append(actions, action)
         /\ ui_ret' = "Ok" /\ ui_pc' = back /\ ui_call' = Idle
    ELSE /\ ui_pc' = waiting /\ ui_call' = action
         /\ UNCHANGED <<actions, ui_ret>>

\* A variant of NetworkHost::new that submits nothing.
HostNew_silent ==
    /\ ui_pc = "new"
    /\ ui_pc' = "idle"
    /\ UNCHANGED <<actions, ui_call, ui_ret, joined, events, taskVars, otVars, codecVars, netVars, uiVars, logVars>>

\* NetworkHost::new: blocking_send(Action::Broadcast); an error is only logged.
HostNew ==
    /\ ui_pc = "new"
    /\ IF ActionRxAlive THEN actions' = Append(actions, ActionBroadcast)
                        ELSE UNCHANGED actions
    /\ ui_pc' = "idle"
    /\ UNCHANGED <<ui_call, ui_ret, joined, events, taskVars, otVars, codecVars, netVars, uiVars, logVars>>

\* NetworkHost::refresh_hosts
HostRefresh ==
    /\ ui_pc = "idle"
    /\ Submit(ActionBroadcast, "blocking_send", "idle")
    /\ UNCHANGED <<joined, events, taskVars, otVars, codecVars, netVars, uiVars, logVars>>

\* NetworkHost::send
HostSend ==
    /\ ui_pc = "idle"
    /\ \E action \in HostSends : Submit(action, "blocking_send", "idle")
    /\ UNCHANGED <<joined, events, taskVars, otVars, codecVars, netVars, uiVars, logVars>>

\* A blocking_send of refresh_hosts or send that waited returns.
HostSubmitResume ==
    /\ ui_pc = "blocking_send"
    /\ has_capacity(actions) \/ ~ActionRxAlive
    /\ Submit(ui_call, "blocking_send", "idle")
    /\ UNCHANGED <<joined, events, taskVars, otVars, codecVars, netVars, uiVars, logVars>>

\* A variant of poll_event that takes the newest event of the channel.
HostPoll_newest ==
    /\ ui_pc = "idle"
    /\ events # <<>>
    /\ events' = SubSeq(events, 1, Len(events) - 1)
    /\ UNCHANGED <<actions, ui_pc, ui_call, ui_ret, joined, taskVars, otVars, codecVars, netVars, uiVars, logVars>>

\* NetworkHost::poll_event when try_recv yields an event.
HostPoll ==
    /\ ui_pc = "idle"
    /\ events # <<>>
    /\ events' = Tail(events)
    /\ UNCHANGED <<actions, ui_pc, ui_call, ui_ret, joined, taskVars, otVars, codecVars, netVars, uiVars, logVars>>

\* NetworkHost::disconnect, the is_closed test.
HostDisconnect ==
    /\ ui_pc = "idle"
    /\ ui_pc' = IF ActionRxAlive THEN "disconnect_send" ELSE "join"
    /\ UNCHANGED <<actions, events, ui_call, ui_ret, joined, taskVars, otVars, codecVars, netVars, uiVars, logVars>>

\* NetworkHost::disconnect, blocking_send(Action::Disconnect)?: once it does
\* not have to wait, it enqueues and goes on to join, or returns TaskClosed,
\* which drops the host.
HostDisconnectSend ==
    /\ ui_pc = "disconnect_send"
    /\ has_capacity(actions) \/ ~ActionRxAlive
    /\ IF ActionRxAlive
       THEN /\ actions' = Append(actions, ActionDisconnect)
            /\ ui_pc' = "join"
            /\ UNCHANGED <<ui_ret, events>>
       ELSE /\ ui_ret' = "TaskClosed"
            /\ ui_pc' = "returned"
            /\ events' = <<>>
            /\ UNCHANGED actions
    /\ UNCHANGED <<ui_call, joined, taskVars, otVars, codecVars, netVars, uiVars, logVars>>

\* NetworkHost::disconnect, join_handle.join() and the return.
HostJoin ==
    /\ ui_pc = "join"
    /\ task_pc \in {"done", "panicked"}
    /\ joined' = TRUE
    /\ ui_ret' = IF task_pc = "panicked" THEN "TaskPanic" ELSE "Ok"
    /\ ui_pc' = "returned"
    /\ events' = <<>>
    /\ UNCHANGED <<actions, ui_call, taskVars, otVars, codecVars, netVars, uiVars, logVars>>

\* The NetworkHost is dropped without disconnect.
HostDrop ==
    /\ ui_pc = "idle"
    /\ ui_pc' = "dropped"
    /\ events' = <<>>
    /\ UNCHANGED <<actions, ui_call, ui_ret, joined, taskVars, otVars, codecVars, netVars, uiVars, logVars>>

TaskThread ==
    RunBindOk \/ RunBindFailed \/ LoopSocket \/ LoopAction \/ LoopClosed \/ LoopResume
UiThread ==
    \/ HostNew \/ HostRefresh \/ HostSend \/ HostSubmitResume \/ HostPoll
    \/ HostDisconnect \/ HostDisconnectSend \/ HostJoin \/ HostDrop
Next == TaskThread \/ UiThread
Spec == Init /\ [][Next]_vars

(***************************************************************************)
(* Properties of the host facade (Spec)                                    *)
(***************************************************************************)

\* C6: once the host has called disconnect(), the call returns: in every
\* reachable state in which disconnect() has not returned yet, the task
\* thread or the call itself can take a step (the task consumes Disconnect,
\* leaves its loop, the join completes), also with a full event channel.
C6_DisconnectReturns ==
    ui_pc \in {"disconnect_send", "join"} =>
        ENABLED (TaskThread \/ HostDisconnectSend \/ HostJoin)

\* C7: disconnect() returns only after the task thread was joined, and the
\* only error it returns is TaskPanic, in every interleaving.
C7_DisconnectJoins ==
    ui_pc = "returned" => joined /\ ui_ret \in {"Ok", "TaskPanic"}

\* C8 (as claimed): refresh_hosts() and send() never wait for the task, also
\* with a full action channel.
C8_NeverWaits == ui_pc # "blocking_send"

\* C8 (amended): refresh_hosts() and send() start to wait only when the
\* action channel holds CHANNEL_SIZE pending actions and the task has not
\* exited; with fewer pending actions, or with the task gone, they return
\* in the same step.
C8_WaitsOnlyWhenFull ==
    [][ ui_pc = "idle" /\ ui_pc' = "blocking_send"
        => Len(actions) = CHANNEL_SIZE /\ ActionRxAlive ]_vars

C8_Witness ==
    /\ ui_pc = "idle" /\ ui_ret = "Ok"
    /\ Len(actions) = CHANNEL_SIZE
    /\ actions[CHANNEL_SIZE].type = "Send"
    /\ task_pc = "select"

\* C21: a refresh_hosts() or send() call that returns after the task has
\* exited (run returned after the bind failure or the end of the loop, or
\* unwound on a panic) returns TaskClosed and leaves the action channel as
\* it was; one that returns while the task has not exited returns Ok and has
\* appended exactly one action, Broadcast or Send, to the channel.
C21_ClosedOrEnqueued ==
    [][ (HostRefresh \/ HostSend \/ HostSubmitResume) /\ ui_pc' = "idle"
        => IF task_pc \in {"done", "panicked"}
           THEN ui_ret' = "TaskClosed" /\ actions' = actions
           ELSE /\ ui_ret' = "Ok"
                /\ Len(actions') = Len(actions) + 1
                /\ SubSeq(actions', 1, Len(actions)) = actions
                /\ actions'[Len(actions')].type \in {"Broadcast", "Send"} ]_vars

\* send() or refresh_hosts() has returned TaskClosed after the decoder panic
\* ended the task, and nothing is in the action channel.
C21_Witness ==
    /\ ui_pc = "idle" /\ ui_ret = "TaskClosed"
    /\ task_pc = "panicked"
    /\ actions = <<>>

\* The events in handling order that the UI has not polled yet: those in the
\* event channel, then those the handler waiting in send_event has yet to send.
Unpolled(queue, waiting) == queue \o EventsOf(waiting)
IsPrefix(p, q) == Len(p) <= Len(q) /\ SubSeq(q, 1, Len(p)) = p

\* C24: the events of the packets of one address reach the UI in the order
\* in which the packets were handled.  All packets here come from PeerAddr.
\* While the host lives, every step either only adds events behind all
\* events of earlier iterations (none overtakes one that is queued or that a
\* waiting handler has yet to send), or takes the oldest one, as poll_event
\* does.
C24_EventsInOrder ==
    [][ HostAlive /\ HostAlive'
        => \/ IsPrefix(Unpolled(events, pending), Unpolled(events', pending'))
           \/ /\ Unpolled(events, pending) # <<>>
              /\ Unpolled(events', pending') = Tail(Unpolled(events, pending)) ]_vars

\* Connected and Disconnected of the peer are queued in the order in which
\* BroadcastGreet and BroadcastBye were handled.
C24_Witness ==
    /\ ui_pc = "idle" /\ task_pc = "select"
    /\ Len(events) >= 2
    /\ events[1] = EventConnected(PeerAddr, BobName)
    /\ events[2] = EventDisconnected(PeerAddr)

\* C28 (as claimed): the first action the task handles is Broadcast, no Send
\* or Disconnect is handled before it, and the first frame the host sends is
\* BroadcastGreet(own name).
C28_BroadcastGreetFirst ==
    /\ first_action \in {Idle, "Broadcast"}
    /\ first_frame \in {NoMessage, BroadcastGreet(AliceName)}

\* Before any action is handled the task has sent nothing but answers to
\* received packets.
BroadcastActionFirst ==
    /\ first_action \in {Idle, "Broadcast"}
    /\ first_action = Idle =>
          first_frame.type \in {"none", "BroadcastResponse", "Response"}

\* C28 (amended): the first action the task handles is Broadcast, no Send or
\* Disconnect is handled before it; until then the only frames sent are
\* answers to received packets (BroadcastResponse, Response), and if none
\* was sent, the first frame is the BroadcastGreet(own name) of that first
\* action, or a later one when its broadcast fails.
C28_BroadcastActionFirst ==
    /\ []BroadcastActionFirst
    /\ [][ first_action = Idle /\ first_action' # Idle /\ first_frame = NoMessage
           => first_frame' \in {NoMessage, BroadcastGreet(AliceName)} ]_vars

\* The initial Broadcast was handled first and its BroadcastGreet was the
\* first frame; a Send submitted later waits in the channel.
C28_Witness ==
    /\ first_action = "Broadcast"
    /\ first_frame = BroadcastGreet(AliceName)
    /\ actions # <<>> /\ Head(actions).type = "Send"

(***************************************************************************)
(* SpecNet: the tasks of several hosts on one LAN.  A datagram sent to the *)
(* broadcast address reaches every host, the sender included; a unicast    *)
(* datagram reaches the host of that IP.  The LAN delivers in any order;   *)
(* here it neither loses nor duplicates, and the OS calls succeed.         *)
(***************************************************************************)
MaxBroadcasts == 2
THIRD_IP == "10.0.0.3"
NetIps == {LOCAL_IP, PEER_IP, THIRD_IP}
NetName(ip) ==
    CASE ip = LOCAL_IP -> AliceName [] ip = PEER_IP -> BobName [] OTHER -> "carol"
NetEnv(ip) == [DefaultEnv EXCEPT !.local_ip = ip]
\* The hosts a datagram for address `to` is delivered to.
NetDests(to) == IF to = BroadcastAddr THEN NetIps ELSE {to.ip} \cap NetIps

RECURSIVE BagOfSeq(_)
BagOfSeq(q) ==
    IF q = <<>> THEN EmptyBag ELSE SetToBag({Head(q)}) (+) BagOfSeq(Tail(q))

NetInit ==
    /\ net = EmptyBag
    /\ net_sent = EmptyBag
    /\ hosts = [h \in NetIps |-> [states |-> EmptyStates, events |-> <<>>]]
    /\ net_todo = MaxBroadcasts
    /\ OtIdle /\ TaskIdle /\ HostIdle /\ CodecIdle /\ UiIdle /\ LogIdle

\* What host h handed to its socket: the datagrams `frames` with their sender.
NetSends(h, frames) ==
    [i \in 1 .. Len(frames) |->
        [msg |-> frames[i].msg, from |-> SockAddr(h), to |-> frames[i].to]]
\* The copies of one sent datagram that the LAN will deliver.
NetCopies(sent) ==
    SetToBag({[msg |-> sent.msg, src |-> sent.from, dst |-> d] :
                 d \in NetDests(sent.to)})
RECURSIVE NetArriving(_)
NetArriving(sends) ==
    IF sends = <<>> THEN EmptyBag
    ELSE NetCopies(Head(sends)) (+) NetArriving(Tail(sends))

\* The effects of one iteration `it` of host h's main_loop: on h's task, on
\* the record of sends, and on the LAN, which still held `rest`.
NetApply(h, it, rest) ==
    LET sends == NetSends(h, Frames(it.ops))
    IN  /\ hosts' = [hosts EXCEPT ![h] =
                        [states |-> it.states,
                         events |-> hosts[h].events \o EventsOf(it.ops)]]
        /\ net_sent' = net_sent (+) BagOfSeq(sends)
        /\ net' = rest (+) NetArriving(sends)

\* The UI of host h submits Action::Broadcast and h's task handles it.
NetBroadcast ==
    /\ net_todo > 0
    /\ \E h \in NetIps :
          NetApply(h, select_action(hosts[h].states, NetName(h), ActionBroadcast,
                                    NetEnv(h)), net)
    /\ net_todo' = net_todo - 1
    /\ UNCHANGED <<otVars, taskVars, hostVars, codecVars, uiVars, logVars>>

\* A datagram arrives at its host, whose task handles it.
NetDeliver ==
    /\ \E f \in BagToSet(net) :
          NetApply(f.dst,
                   select_socket(hosts[f.dst].states, NetName(f.dst),
                                 [io_ok |-> TRUE, msg |-> f.msg], f.src,
                                 NetEnv(f.dst)),
                   net (-) SetToBag({f}))
    /\ UNCHANGED <<net_todo, otVars, taskVars, hostVars, codecVars, uiVars, logVars>>

NetNext == NetBroadcast \/ NetDeliver
\* Every task is scheduled and the LAN delivers: a datagram in flight does
\* not wait forever.
SpecNet == NetInit /\ [][NetNext]_vars /\ WF_vars(NetDeliver)

\* How many BroadcastGreet host x has sent to the broadcast address, how many
\* BroadcastResponse host y has sent to host x, and how many copies of a
\* datagram are still in flight.
NetGreet(x) ==
    [msg |-> BroadcastGreet(NetName(x)), from |-> SockAddr(x), to |-> BroadcastAddr]
NetResponse(y, x) ==
    [msg |-> BroadcastResponse(NetName(y)), from |-> SockAddr(y), to |-> SockAddr(x)]
Greets(x) == CopiesIn(NetGreet(x), net_sent)
Responses(y, x) == CopiesIn(NetResponse(y, x), net_sent)
InFlight(sent, d) ==
    CopiesIn([msg |-> sent.msg, src |-> sent.from, dst |-> d], net)
Occurrences(e, q) == Cardinality({i \in DOMAIN q : q[i] = e})

\* The datagrams and events of discovery.  Every Broadcast action has produced
\* one BroadcastGreet and nothing else is ever sent but BroadcastResponse
\* from one host to another; each host y has answered every BroadcastGreet
\* of another host x that reached it with exactly one BroadcastResponse to
\* x, emitting Connected(x); x has emitted Connected(y) for every
\* BroadcastResponse of y that reached it and has sent nothing in reply; a
\* host's own BroadcastGreet produces nothing.  Hence, once the LAN is empty,
\* a Broadcast of x has cost one BroadcastGreet and one BroadcastResponse per
\* other host, and no datagram is left to send.
NetAccounts ==
    /\ Greets(LOCAL_IP) + Greets(PEER_IP) + Greets(THIRD_IP)
          = MaxBroadcasts - net_todo
    /\ \A s \in BagToSet(net_sent) :
          \E x \in NetIps :
             \/ s = NetGreet(x)
             \/ \E y \in NetIps \ {x} : s = NetResponse(y, x)
    /\ \A x \in NetIps : \A y \in NetIps \ {x} :
          /\ Responses(y, x) = Greets(x) - InFlight(NetGreet(x), y)
          /\ Occurrences(EventConnected(SockAddr(x), NetName(x)), hosts[y].events)
                = (Greets(x) - InFlight(NetGreet(x), y))
                  + (Responses(x, y) - InFlight(NetResponse(x, y), y))
    /\ \A y \in NetIps :
          /\ hosts[y].states = EmptyStates
          /\ \A i \in DOMAIN hosts[y].events :
                \E x \in NetIps \ {y} :
                   hosts[y].events[i] = EventConnected(SockAddr(x), NetName(x))

\* C16: discovery between hosts on different IPs completes and stops: the
\* datagrams sent are always those NetAccounts allows (one BroadcastGreet per
\* Broadcast, one BroadcastResponse per other host that received it, nothing
\* in reply to a BroadcastResponse), and from some point on the LAN is empty
\* for good.
C16_DiscoveryStops == []NetAccounts /\ <>[](net = EmptyBag)

\* Two hosts have broadcast, every datagram has arrived, and three datagrams
\* per Broadcast were sent in all.
C16_Witness ==
    /\ net = EmptyBag /\ net_todo = 0
    /\ Greets(LOCAL_IP) = 1 /\ Greets(PEER_IP) = 1
    /\ Responses(PEER_IP, LOCAL_IP) = 1 /\ Responses(THIRD_IP, LOCAL_IP) = 1
    /\ BagCardinality(net_sent) = 3 * MaxBroadcasts
    /\ Occurrences(EventConnected(SockAddr(PEER_IP), BobName),
                   hosts[LOCAL_IP].events) = 2

(***************************************************************************)
(* SpecPeers: the task's discovery handlers, the event channel and the     *)
(* UI's peer panel (gui/peer_panel.rs, gui/app.rs).  PeerPanel.0 is a      *)
(* BTreeMap<SocketAddr, Peer>, kept here as the sequence of its entries in *)
(* key order, so that insert has to find the key to replace its value.     *)
(***************************************************************************)
ThirdAddr == SockAddr(THIRD_IP)
\* The addresses that discovery frames come from, and those typed into the
\* panel's address field.
PeersSources == {LocalAddr, PeerAddr}
PeersTyped == {PeerAddr, ThirdAddr}
\* The order of SocketAddr keys.
AddrRank(addr) ==
    CASE addr.ip = LOCAL_IP -> 1 [] addr.ip = PEER_IP -> 2 [] OTHER -> 3

\* Peer::new and Peer::new_with_name
Peer_new(address) == [address |-> address, name |-> None]
Peer_new_with_name(address, name) == [address |-> address, name |-> Some(name)]

\* BTreeMap::insert: the value of an existing key is replaced, a new key is
\* put at its place in the order.
BTreeMap_insert(map, key, value) ==
    IF \E i \in DOMAIN map : map[i].key = key
    THEN [i \in DOMAIN map |->
             IF map[i].key = key THEN [key |-> key, value |-> value] ELSE map[i]]
    ELSE LET below == SelectSeq(map, LAMBDA e : AddrRank(e.key) < AddrRank(key))
             above == SelectSeq(map, LAMBDA e : AddrRank(e.key) > AddrRank(key))
         IN  below \o <<[key |-> key, value |-> value]>> \o above
\* BTreeMap::remove
BTreeMap_remove(map, key) == SelectSeq(map, LAMBDA e : e.key # key)

\* A variant of add_peer that adds an entry without looking for the key.
add_peer_append(map, peer) == Append(map, [key |-> peer.address, value |-> peer])

\* PeerPanel::add_peer, remove_peer, clear_peers
add_peer(map, peer) == BTreeMap_insert(map, peer.address, peer)
remove_peer(map, address) == BTreeMap_remove(map, address)
clear_peers == <<>>

\* App::update, one turn of the poll_event loop on the peer panel.
on_event(map, event) ==
    CASE event.event = "Connected" ->
            add_peer(map, Peer_new_with_name(event.addr, event.name))
      [] event.event = "Disconnected" -> remove_peer(map, event.addr)
      [] OTHER -> map

PeersReceives ==
    {[io_ok |-> TRUE, msg |-> m] :
        m \in {BroadcastGreet(BobName), BroadcastGreet(AliceName),
               BroadcastResponse(NetName(THIRD_IP)), BroadcastBye}}

PeersInit ==
    /\ task_pc = "select"
    /\ running = TRUE
    /\ states = EmptyStates
    /\ pending = <<>>
    /\ round = NoRound
    /\ actions = <<>> /\ events = <<>>
    /\ ui_pc = "idle" /\ ui_call = Idle /\ ui_ret = Idle /\ joined = FALSE
    /\ peers = <<>> /\ user_message = Idle /\ username = NoName
    /\ OtIdle /\ CodecIdle /\ NetIdle /\ LogIdle

\* One iteration of main_loop on a discovery frame; its events go to the
\* event channel, which has room for them.
PeersPacket ==
    /\ \E rx \in PeersReceives, addr \in PeersSources :
         \E env \in PacketEnvs(rx) :
            LET it == select_socket(states, AliceName, rx, addr, env)
            IN  /\ Len(events) + Len(EventsOf(it.ops)) <= CHANNEL_SIZE
                /\ events' = events \o EventsOf(it.ops)
                /\ states' = it.states
                /\ round' = [kind |-> "socket", rx |-> rx, addr |-> addr,
                             env |-> env,
                             was |-> StateTag(states, addr), ops |-> it.ops,
                             failed |-> it.failed]
    /\ UNCHANGED <<task_pc, running, pending, actions, ui_pc, ui_call, ui_ret,
                   joined, uiVars, otVars, codecVars, netVars, logVars>>

\* App::update: poll_event yields an event, the panel follows it.
PeersPoll ==
    /\ events # <<>>
    /\ events' = Tail(events)
    /\ peers' = on_event(peers, Head(events))
    /\ UNCHANGED <<actions, ui_pc, ui_call, ui_ret, joined, user_message,
                   username, taskVars, otVars, codecVars, netVars, logVars>>

\* PeerPanel::draw: the Add button with a parsable address in the text field.
PeersAdd ==
    /\ \E addr \in PeersTyped : peers' = add_peer(peers, Peer_new(addr))
    /\ UNCHANGED <<user_message, username, taskVars, hostVars, otVars,
                   codecVars, netVars, logVars>>

\* PeerPanel::draw: the refresh button clears the panel.
PeersClear ==
    /\ peers # <<>>
    /\ peers' = clear_peers
    /\ UNCHANGED <<user_message, username, taskVars, hostVars, otVars,
                   codecVars, netVars, logVars>>

PeersNext == PeersPacket \/ PeersPoll \/ PeersAdd \/ PeersClear
SpecPeers == PeersInit /\ [][PeersNext]_vars

\* The step handles a BroadcastGreet from the non-local address from which
\* the iteration before handled one too, local_ip() succeeding both times.
TwoGreets ==
    /\ PeersPacket
    /\ HandledType(round) = "BroadcastGreet"
    /\ HandledType(round') = "BroadcastGreet"
    /\ round'.addr = round.addr
    /\ round.addr.ip # LOCAL_IP
    /\ round.env.ip_ok /\ round'.env.ip_ok
ConnectedEvents(r) ==
    SelectSeq(EventsOf(r.ops), LAMBDA e : e.event = "Connected")
SingleEntry ==
    /\ \A i, j \in DOMAIN peers : i # j => peers[i].key # peers[j].key
    /\ \A i \in DOMAIN peers : peers[i].value.address = peers[i].key

\* C25: idempotent peer add.  Two consecutive BroadcastGreet frames from the
\* same non-local address emit two Connected events, one each, for that
\* address with the name of the frame; and after any sequence of add_peer,
\* remove_peer and clear_peers the peer map holds at most one entry per
\* address, each under the address of its Peer.
C25_IdempotentPeerAdd ==
    /\ []SingleEntry
    /\ [][ TwoGreets
           => /\ ConnectedEvents(round)
                    = <<EventConnected(round.addr, round.rx.msg.name)>>
              /\ ConnectedEvents(round')
                    = <<EventConnected(round'.addr, round'.rx.msg.name)>> ]_vars

\* The panel holds bob for the peer's address after the first BroadcastGreet;
\* the Connected event of the second one, from the same address with
\* another name, is in the channel.
C25_Witness ==
    /\ HandledType(round) = "BroadcastGreet"
    /\ round.addr = PeerAddr
    /\ round.rx.msg.name = AliceName
    /\ events = <<EventConnected(PeerAddr, AliceName)>>
    /\ peers = <<[key |-> PeerAddr, value |-> Peer_new_with_name(PeerAddr, BobName)]>>

(***************************************************************************)
(* SpecEdit: the UI's edits of a UserMessage (connection.rs), egui's       *)
(* TextBuffer.  A string is the sequence of its UTF-8 bytes.  The limit is *)
(* 1000 bytes in the source, scaled down here.  Slicing a str at an index  *)
(* that is not a char boundary is a panic.                                 *)
(***************************************************************************)
USER_MESSAGE_MAX == 8

Edited(text) == [tag |-> "Ok", text |-> text]
Min(a, b) == IF a <= b THEN a ELSE b

\* str::is_char_boundary
is_char_boundary(s, index) ==
    \/ index = 0
    \/ index = Len(s)
    \/ index < Len(s) /\ ~IsCont(s[index + 1])
\* s.chars().count()
CharCount(s) == Cardinality({i \in DOMAIN s : ~IsCont(s[i])})
\* egui's byte_index_from_char_index: the byte offset of the char_index-th
\* char, s.len() when there is none.
byte_index_from_char_index(s, char_index) ==
    IF char_index >= CharCount(s) THEN Len(s)
    ELSE (CHOOSE i \in DOMAIN s :
             /\ ~IsCont(s[i])
             /\ CharCount(SubSeq(s, 1, i - 1)) = char_index) - 1
\* String::insert_str
insert_str(s, idx, text) == SubSeq(s, 1, idx) \o text \o SubSeq(s, idx + 1, Len(s))
\* String::drain(from..to)
drain(s, from, to) == SubSeq(s, 1, from) \o SubSeq(s, to + 1, Len(s))

\* <UserMessage as TextBuffer>::insert_text: &text[..n] with
\* n = min(text.len(), 1000 - self.0.len()), then String::insert_text.
insert_text(s, text, char_index) ==
    LET cut == Min(Len(text), USER_MESSAGE_MAX - Len(s))
    IN  IF ~is_char_boundary(text, cut) THEN Panicked
        ELSE Edited(insert_str(s, byte_index_from_char_index(s, char_index),
                               SubSeq(text, 1, cut)))

\* <UserMessage as TextBuffer>::delete_char_range, start <= end.
delete_char_range(s, start, end) ==
    Edited(drain(s, byte_index_from_char_index(s, start),
                 byte_index_from_char_index(s, end)))

\* What the UI types or pastes: "A", "é", "€", "Aé", "éA".
EditTexts ==
    {<<65>>, <<195, 169>>, <<226, 130, 172>>, <<65, 195, 169>>, <<195, 169, 65>>}

\* UserMessage::default()
EditInit ==
    /\ user_message = Edited(<<>>)
    /\ peers = <<>> /\ username = NoName
    /\ OtIdle /\ TaskIdle /\ HostIdle /\ CodecIdle /\ NetIdle /\ LogIdle

EditInsert ==
    /\ user_message.tag = "Ok"
    /\ \E text \in EditTexts, char_index \in 0 .. (CharCount(user_message.text) + 1) :
          user_message' = insert_text(user_message.text, text, char_index)
    /\ UNCHANGED <<peers, username, otVars, taskVars, hostVars, codecVars, netVars, logVars>>

EditDelete ==
    /\ user_message.tag = "Ok"
    /\ \E end \in 0 .. (CharCount(user_message.text) + 1) :
          \E start \in 0 .. end :
             user_message' = delete_char_range(user_message.text, start, end)
    /\ UNCHANGED <<peers, username, otVars, taskVars, hostVars, codecVars, netVars, logVars>>

EditNext == EditInsert \/ EditDelete
SpecEdit == EditInit /\ [][EditNext]_vars

\* C26: after any sequence of insert_text and delete_char_range edits the
\* UserMessage has at most 1000 bytes (USER_MESSAGE_MAX here), and no
\* insert_text panics, whatever text is inserted, also when the remaining
\* capacity ends inside a multi-byte character of it.
C26_EditsKeepBound ==
    /\ user_message.tag = "Ok"
    /\ Len(user_message.text) <= USER_MESSAGE_MAX

(***************************************************************************)
(* SpecName: every operation connection.rs offers on a Username.  The      *)
(* field is private to the module, so these are all there are: the         *)
(* conversion from a String (Username::new is the same conversion), clone, *)
(* the read-only Deref and Display, and the conversion back into a String, *)
(* which consumes the Username.  A String is the sequence of its bytes.    *)
(***************************************************************************)
\* Strings of 0, 1, 2, 3, 99, 100, 101, 102 and 200 bytes.
NameInputs ==
    {<<>>, <<65>>, <<195, 169>>, <<65, 195, 169>>,
     Filled(65, USERNAME_MAX - 1), Filled(65, USERNAME_MAX),
     Filled(66, USERNAME_MAX), Filled(65, USERNAME_MAX + 1),
     <<195, 169>> \o Filled(65, USERNAME_MAX), Filled(65, 2 * USERNAME_MAX)}

\* value and copy: the Usernames held, if any; call: the input and
\* the result of the last conversion; string: the last String or str read.
NameState(value, copy, call, string) ==
    [value |-> value, copy |-> copy, call |-> call, string |-> string]

NameInit ==
    /\ username = NameState(None, None, None, <<>>)
    /\ peers = <<>> /\ user_message = Idle
    /\ OtIdle /\ TaskIdle /\ HostIdle /\ CodecIdle /\ NetIdle /\ LogIdle

\* Username::new(name), Username::try_from(name)
NameNew ==
    /\ \E name \in NameInputs :
          LET r == Username_try_from(name)
          IN  username' = [username EXCEPT
                  !.value = IF r.ok THEN Some(r.val) ELSE @,
                  !.call = Some([input |-> name, result |-> r])]
    /\ UNCHANGED <<peers, user_message, otVars, taskVars, hostVars, codecVars, netVars, logVars>>

\* Clone::clone
NameClone ==
    /\ username.value.some
    /\ username' = [username EXCEPT !.copy = username.value]
    /\ UNCHANGED <<peers, user_message, otVars, taskVars, hostVars, codecVars, netVars, logVars>>

\* Deref::deref and Display::fmt: the bytes are read, the Username stays.
NameDeref ==
    /\ username.value.some
    /\ username' = [username EXCEPT !.string = username.value.v]
    /\ UNCHANGED <<peers, user_message, otVars, taskVars, hostVars, codecVars, netVars, logVars>>

\* String::from(username): the Username is consumed.
NameInto ==
    /\ username.value.some
    /\ username' = [username EXCEPT !.string = username.value.v, !.value = None]
    /\ UNCHANGED <<peers, user_message, otVars, taskVars, hostVars, codecVars, netVars, logVars>>

NameNext == NameNew \/ NameClone \/ NameDeref \/ NameInto
SpecName == NameInit /\ [][NameNext]_vars

ValidName(n) == n.some => Len(n.v) >= 1 /\ Len(n.v) <= USERNAME_MAX

\* The Usernames held are valid, and the last conversion returned what the
\* length of its input calls for.
NamesValid ==
    /\ ValidName(username.value) /\ ValidName(username.copy)
    /\ username.call.some =>
          LET n == Len(username.call.v.input)
          IN  username.call.v.result =
                 IF n = 0 THEN ErrVal("Empty")
                 ELSE IF n > USERNAME_MAX THEN ErrVal("TooLong")
                 ELSE OkVal(username.call.v.input)

MaxSends == 2
MaxFaults == 2
LanIps == {LOCAL_IP, PEER_IP}
LanOther(ip) == IF ip = LOCAL_IP THEN PEER_IP ELSE LOCAL_IP
LanScalars == {1, 2}
LanPair(k) == <<"m0 of Send " \o ToString(k), "m1 of Send " \o ToString(k)>>
\* The Send action number k of host h, and the record kept of it.
LanSendAction(h, k) ==
    ActionSend(SockAddr(LanOther(h)), LanPair(k)[1], LanPair(k)[2], None)
LanIssued(h, k) == [from |-> h, k |-> k]
\* What the handler of a frame draws: Scalar::random, random(), and the
\* bytes a decryption under another key produces.
LanEnvs(h, msg) ==
    CASE msg.type = "Greet" ->
            {[NetEnv(h) EXCEPT !.b = b, !.c = c] : b \in LanScalars, c \in BOOLEAN}
      [] msg.type = "Data" -> {[NetEnv(h) EXCEPT !.junk = j] : j \in Junk}
      [] OTHER -> {NetEnv(h)}

LanInit ==
    /\ net = EmptyBag
    /\ net_sent = EmptyBag
    /\ hosts = [h \in LanIps |-> [states |-> EmptyStates, events |-> <<>>]]
    /\ net_todo = [sends |-> MaxSends, faults |-> MaxFaults]
    /\ OtIdle /\ TaskIdle /\ HostIdle /\ CodecIdle /\ UiIdle /\ LogIdle

\* The effects of one iteration `it` of host h's main_loop on h's task and
\* on the LAN, which still held `rest`.
LanApply(h, it, rest) ==
    /\ hosts' = [hosts EXCEPT ![h] =
                    [states |-> it.states,
                     events |-> hosts[h].events \o EventsOf(it.ops)]]
    /\ net' = rest (+) NetArriving(NetSends(h, Frames(it.ops)))

\* NetworkHost::send on host h, and h's task handling the action.
LanSend ==
    /\ net_todo.sends > 0
    /\ \E h \in LanIps : \E a \in LanScalars :
          /\ LanApply(h, select_action(hosts[h].states, NetName(h),
                                       LanSendAction(h, net_todo.sends),
                                       [NetEnv(h) EXCEPT !.a = a]), net)
          /\ net_sent' = net_sent (+) SetToBag({LanIssued(h, net_todo.sends)})
    /\ net_todo' = [net_todo EXCEPT !.sends = @ - 1]
    /\ UNCHANGED <<otVars, taskVars, hostVars, codecVars, uiVars, logVars>>

\* A datagram arrives at its host, whose task handles it.
LanDeliver ==
    /\ \E f \in BagToSet(net) : \E env \in LanEnvs(f.dst, f.msg) :
          LanApply(f.dst,
                   select_socket(hosts[f.dst].states, NetName(f.dst),
                                 [io_ok |-> TRUE, msg |-> f.msg], f.src, env),
                   net (-) SetToBag({f}))
    /\ UNCHANGED <<net_sent, net_todo, otVars, taskVars, hostVars, codecVars,
                   uiVars, logVars>>

\* The LAN loses a datagram.
LanDrop ==
    /\ net_todo.faults > 0
    /\ \E f \in BagToSet(net) : net' = net (-) SetToBag({f})
    /\ net_todo' = [net_todo EXCEPT !.faults = @ - 1]
    /\ UNCHANGED <<net_sent, hosts, otVars, taskVars, hostVars, codecVars,
                   uiVars, logVars>>

\* The LAN duplicates a datagram.
LanDuplicate ==
    /\ net_todo.faults > 0
    /\ \E f \in BagToSet(net) : net' = net (+) SetToBag({f})
    /\ net_todo' = [net_todo EXCEPT !.faults = @ - 1]
    /\ UNCHANGED <<net_sent, hosts, otVars, taskVars, hostVars, codecVars,
                   uiVars, logVars>>

LanNext == LanSend \/ LanDeliver
\* Both tasks are scheduled and the LAN delivers every datagram.
SpecLan == LanInit /\ [][LanNext]_vars /\ WF_vars(LanDeliver)
\* The same two hosts on a LAN that may also lose and duplicate.
LossyNext == LanSend \/ LanDeliver \/ LanDrop \/ LanDuplicate
SpecLossy == LanInit /\ [][LossyNext]_vars

\* Host h has issued its Send number k; the other host has emitted a Message
\* event from h with one of the two texts of that Send.
Issued(h, k) == BagIn(LanIssued(h, k), net_sent)
MessageOf(h, k) ==
    {EventMessage(SockAddr(h), LanPair(k)[1]), EventMessage(SockAddr(h), LanPair(k)[2])}
Delivered(h, k) ==
    \E i \in DOMAIN hosts[LanOther(h)].events :
       hosts[LanOther(h)].events[i] \in MessageOf(h, k)

\* C31: on a LAN that delivers every datagram, with both tasks running,
\* every Send a host issues leads to a Message event at the other host that
\* carries one of the two texts of that Send.
C31_EverySendDelivers ==
    \A h \in LanIps : \A k \in 1 .. MaxSends : Issued(h, k) ~> Delivered(h, k)


\* C32: on a LAN that may lose, duplicate and reorder, every Message event a
\* host has emitted names the other host and carries one of the two texts
\* of a Send that host has issued.
C32_MessagesAuthentic ==
    \A h \in LanIps : \A i \in DOMAIN hosts[h].events :
       hosts[h].events[i].event = "Message" =>
          \E k \in 1 .. MaxSends :
             /\ Issued(LanOther(h), k)
             /\ hosts[h].events[i] \in MessageOf(LanOther(h), k)


(***************************************************************************)
(* SpecApp: the task and the UI thread as App::update drives the host.     *)
(* Every frame first drains the event channel with poll_event until it is  *)
(* empty ("idle"), then draws the peer panel, where a click submits one    *)
(* refresh_hosts ("peer_panel"), then the message panel, where a click     *)
(* submits one send ("message_panel"), and the next frame starts.  The     *)
(* task runs as in Spec.                                                   *)
(***************************************************************************)
\* while let Some(event) = client.poll_event(): the channel is empty.
AppDrained ==
    /\ ui_pc = "idle"
    /\ events = <<>>
    /\ ui_pc' = "peer_panel"
    /\ UNCHANGED <<actions, events, ui_call, ui_ret, joined, taskVars, otVars,
                   codecVars, netVars, uiVars, logVars>>

\* PeerPanelAction::RefreshPeers => client.refresh_hosts()
AppRefresh ==
    /\ ui_pc = "peer_panel"
    /\ Submit(ActionBroadcast, "refresh_send", "message_panel")
    /\ UNCHANGED <<joined, events, taskVars, otVars, codecVars, netVars, uiVars, logVars>>

\* PeerPanelAction::PeerClicked or None
AppNoRefresh ==
    /\ ui_pc = "peer_panel"
    /\ ui_pc' = "message_panel"
    /\ UNCHANGED <<actions, events, ui_call, ui_ret, joined, taskVars, otVars,
                   codecVars, netVars, uiVars, logVars>>

\* The blocking_send of refresh_hosts that waited returns.
AppRefreshResume ==
    /\ ui_pc = "refresh_send"
    /\ has_capacity(actions) \/ ~ActionRxAlive
    /\ Submit(ui_call, "refresh_send", "message_panel")
    /\ UNCHANGED <<joined, events, taskVars, otVars, codecVars, netVars, uiVars, logVars>>

\* message_panel.show(ui) returns Some(..) => client.send(m0, m1, addr, a);
\* the update ends after it.
AppSend ==
    /\ ui_pc = "message_panel"
    /\ \E action \in HostSends : Submit(action, "blocking_send", "idle")
    /\ UNCHANGED <<joined, events, taskVars, otVars, codecVars, netVars, uiVars, logVars>>

\* message_panel.show(ui) returns None; the update ends.
AppNoSend ==
    /\ ui_pc = "message_panel"
    /\ ui_pc' = "idle"
    /\ UNCHANGED <<actions, events, ui_call, ui_ret, joined, taskVars, otVars,
                   codecVars, netVars, uiVars, logVars>>

AppThread ==
    \/ HostNew \/ HostPoll \/ AppDrained \/ AppRefresh \/ AppNoRefresh
    \/ AppRefreshResume \/ AppSend \/ AppNoSend \/ HostSubmitResume
AppNext ==
    \/ RunBindOk \/ RunBindFailed \/ LoopSocket \/ LoopAction \/ LoopResume
    \/ AppThread
SpecApp == Init /\ [][AppNext]_vars

\* The UI thread waits in blocking_send for room in the action channel; the
\* task waits in send_event for room in the event channel.
UiBlocked ==
    /\ ui_pc \in {"blocking_send", "refresh_send", "disconnect_send"}
    /\ ActionRxAlive /\ Len(actions) = CHANNEL_SIZE
TaskBlocked ==
    /\ task_pc = "send_event"
    /\ HostAlive /\ Len(events) = CHANNEL_SIZE

\* C33: the UI thread and the task never wait for each other: in no
\* reachable state is the UI thread blocked submitting an action into the
\* full action channel while the task is blocked emitting an event into the
\* full event channel.
C33_NoDeadlock == ~(UiBlocked /\ TaskBlocked)


(***************************************************************************)
(* The order of handlers (Spec)                                            *)
(***************************************************************************)
\* A handler is in progress: it waits in send_event for room in the event
\* channel, `pending` being what it still has to do.
HandlerWaits == task_pc = "send_event"
\* The task ends in this step: run returns or unwinds, and the actions
\* still in the channel are dropped with the receiver.
TaskEnds == ActionRxAlive /\ ~ActionRxAlive'
\* The task ends having handled Disconnect, in this step or in the handler
\* that was waiting.
EndsByDisconnect ==
    \/ task_pc = "select" /\ actions # <<>> /\ Head(actions) = ActionDisconnect
    \/ task_pc = "send_event" /\ ~running
IsSuffix(p, q) == Len(p) <= Len(q) /\ SubSeq(q, Len(q) - Len(p) + 1, Len(q)) = p

\* While a handler waits, no datagram and no action is taken: the state map
\* stays, the handler only advances through its own remaining operations,
\* the action channel only grows.  The action channel is a FIFO the task
\* takes from only between handlers: it changes by one action appended, by
\* the oldest action taken by the task at the select (the first action
\* handled is then that one), or by the task ending.
HandlersInTurn ==
    /\ HandlerWaits =>
          /\ states' = states
          /\ IsSuffix(pending', pending)
          /\ IsPrefix(actions, actions') \/ (TaskEnds /\ actions' = <<>>)
          /\ first_action' = first_action
    /\ actions' # actions =>
          \/ Len(actions') = Len(actions) + 1 /\ IsPrefix(actions, actions')
          \/ /\ task_pc = "select" /\ actions # <<>> /\ actions' = Tail(actions)
             /\ first_action = Idle => first_action' = Head(actions).type
          \/ TaskEnds /\ actions' = <<>>

\* C34 (as claimed): handlers run in turn, and the task never ends with
\* actions in the channel that it has not handled, unless it ends by
\* Disconnect.
C34_EveryActionHandled ==
    [][HandlersInTurn /\ (TaskEnds /\ actions # <<>> => EndsByDisconnect)]_vars

\* C34: handlers never interleave and actions are taken one at a time, oldest
\* first, each at most once.
C34_HandlersInTurn == [][HandlersInTurn]_vars

\* A handler waits in send_event with operations left while an action waits
\* in the channel.
C34_Witness == HandlerWaits /\ pending # <<>> /\ actions # <<>> /\ running


(***************************************************************************)
(* SpecFrame: the sizes of the Data frame of one exchange, at the sizes of *)
(* the build.  The initiator holds two UserMessages (at most 1000 bytes,   *)
(* which SpecEdit scales down to USER_MESSAGE_MAX); on_response encrypts   *)
(* both, the encoder frames the two ciphertexts, and the peer's recv_from  *)
(* reads the datagram into its buffer and decodes what it read.  Only the  *)
(* lengths matter here: texts and ciphertexts are filled with one byte.    *)
(***************************************************************************)
USER_MESSAGE_BYTES == 1000
RECV_BUFFER == 2048
\* A variant of the cipher that always appends a whole block of padding
\* after filling the last block.
cbc_ciphertext_extra_block(plaintext) == Filled(65, 16 * ((Len(plaintext) + 15) \div 16 + 1))
\* Cipher::cbc_encrypt with padding (PKCS#7): whole blocks of 16 bytes, with
\* at least one byte of padding.
cbc_ciphertext(plaintext) == Filled(65, 16 * (Len(plaintext) \div 16 + 1))
\* The lengths of the two texts: around the block size and around the limit.
FrameLengths ==
    {0, 1, 15, 16, 17, 500, USER_MESSAGE_BYTES - 17, USER_MESSAGE_BYTES - 16,
     USER_MESSAGE_BYTES - 9, USER_MESSAGE_BYTES - 8, USER_MESSAGE_BYTES}

FrameInit ==
    /\ codec_pc = "response"
    /\ message \in {[m0 |-> Filled(65, n0), m1 |-> Filled(65, n1)] :
                       n0 \in FrameLengths, n1 \in FrameLengths}
    /\ datagram = <<>>
    /\ decoded = Idle
    /\ OtIdle /\ TaskIdle /\ HostIdle /\ NetIdle /\ UiIdle /\ LogIdle

\* on_response encrypts m0 and m1; send_to(Message::Data(c0, c1)) encodes.
FrameSend ==
    /\ codec_pc = "response"
    /\ message' = Data(cbc_ciphertext(message.m0), cbc_ciphertext(message.m1))
    /\ datagram' = into_bytes(message')
    /\ codec_pc' = "sent"
    /\ UNCHANGED <<decoded, otVars, taskVars, hostVars, netVars, uiVars, logVars>>

\* OTMPSocket::recv_from: the socket fills the buffer with at most its size
\* of the datagram; Message::try_from(&buffer[..size]).
FrameReceive ==
    /\ codec_pc = "sent"
    /\ decoded' = try_from(SubSeq(datagram, 1, Min(Len(datagram), RECV_BUFFER)))
    /\ codec_pc' = "received"
    /\ UNCHANGED <<message, datagram, otVars, taskVars, hostVars, netVars, uiVars, logVars>>

FrameNext == FrameSend \/ FrameReceive
SpecFrame == FrameInit /\ [][FrameNext]_vars

\* C35: the Data frame made from two UserMessages of at most 1000 bytes:
\* each ciphertext has at most 1008 bytes; the payload has 2 + |c0| + |c1|
\* bytes, at most 2018, and the header's u16 length field holds exactly that
\* number, as the u16 in front of c0 holds |c0|; the frame has at most 2025
\* bytes, which fits the receive buffer, and the peer decodes from its
\* buffer the Data message that was sent.
C35_DataFrameFits ==
    /\ codec_pc \in {"sent", "received"} =>
          LET payload == Len(datagram) - HEADER_SIZE
          IN  /\ Len(message.m0) <= 1008 /\ Len(message.m1) <= 1008
              /\ payload = 2 + Len(message.m0) + Len(message.m1)
              /\ payload <= 2018
              /\ BeU16(At(datagram, 5), At(datagram, 6)) = payload
              /\ BeU16(At(datagram, HEADER_SIZE), At(datagram, HEADER_SIZE + 1))
                    = Len(message.m0)
              /\ Len(datagram) <= 2025
              /\ Len(datagram) <= RECV_BUFFER
    /\ codec_pc = "received" => decoded = DecodeOk(message)

\* Two texts of 1000 bytes: ciphertexts of 1008 bytes, a frame of 2025 bytes,
\* received and decoded.
C35_Witness ==
    /\ codec_pc = "received"
    /\ Len(message.m0) = 1008 /\ Len(message.m1) = 1008
    /\ Len(datagram) = 2025

====
